---- MODULE Spec2Model ----
(***************************************************************************)
(* DOM-tree processing and action-addressing engine of notte:              *)
(* raw node records -> ParseDomTreePipe (_parse_node, build_csspath,       *)
(* generate_sequential_ids, to_notte_domnode) -> DomNode tree ->           *)
(* pruning (subtree_filter, fold_single_childs) -> snapshot diff,          *)
(* action resolution and element location.                                 *)
(*                                                                         *)
(* Encoding.  An optional value is a sequence of length 0 or 1 (None,      *)
(* Some(x)).  A text is a sequence of one-character strings.  An attribute *)
(* key is the sequence of its dash-separated tokens ("aria-label" is       *)
(* <<"aria","label">>); an attribute map is a sequence of <<key, value>>   *)
(* pairs in insertion order.  The mutable DOMBaseNode objects live in an   *)
(* arena (a sequence indexed in document order, children given by index);  *)
(* the frozen DomNode dataclass is a nested record.                        *)
(***************************************************************************)
EXTENDS Integers, Sequences, FiniteSets, TLC

VARIABLES raw, tree, out, out2, pc, inp

vars == <<raw, tree, out, out2, pc, inp>>

None == <<>>

Some(x) == <<x>>

\* ---------------------------------------------------------------------------
\* Bounds of the model
\* ---------------------------------------------------------------------------

\* largest number of raw node records in one page tree (reduction pipeline)
MaxNodes == 3

\* ---------------------------------------------------------------------------
\* str helpers (Python str.strip, the `in` substring test)
\* ---------------------------------------------------------------------------

\* whitespace characters (newline, carriage return and tab are spelled out)
Whitespace == {" ", "NL", "CR", "TAB"}

RECURSIVE LStrip(_)
LStrip(s) ==
    IF s = <<>> THEN s
    ELSE IF Head(s) \in Whitespace THEN LStrip(Tail(s)) ELSE s

RECURSIVE RStrip(_)
RStrip(s) ==
    IF s = <<>> THEN s
    ELSE IF s[Len(s)] \in Whitespace THEN RStrip(SubSeq(s, 1, Len(s) - 1)) ELSE s

Strip(s) == RStrip(LStrip(s))

IsSubstr(sub, s) ==
    \E i \in 0..(Len(s) - Len(sub)) : SubSeq(s, i + 1, i + Len(sub)) = sub

RECURSIVE ConcatAll(_)
ConcatAll(ss) ==
    IF ss = <<>> THEN <<>> ELSE Head(ss) \o ConcatAll(Tail(ss))

RECURSIVE MergeAll(_)
MergeAll(fs) ==
    IF fs = <<>> THEN <<>> ELSE Head(fs) @@ MergeAll(Tail(fs))

\* dict.get on an ordered attribute map: the value of the last pair with the key
RECURSIVE AttrGet(_, _)
AttrGet(attrs, key) ==
    IF attrs = <<>> THEN None
    ELSE LET last == attrs[Len(attrs)]
         IN  IF last[1] = key THEN Some(last[2])
             ELSE AttrGet(SubSeq(attrs, 1, Len(attrs) - 1), key)

AttrHas(attrs, key) == AttrGet(attrs, key) # None

\* ---------------------------------------------------------------------------
\* node_type.py
\* ---------------------------------------------------------------------------

InteractionRoles ==
    {"button", "link", "combobox", "listbox", "textbox", "checkbox", "searchbox",
     "radio", "tab", "menuitem", "slider", "switch", "menuitemcheckbox",
     "menuitemradio", "option"}

TextRoles ==
    {"text", "heading", "paragraph", "blockquote", "caption", "contentinfo",
     "definition", "emphasis", "log", "note", "status", "strong", "subscript",
     "superscript", "term", "time", "LineBreak", "DescriptionList", "LabelText"}

ListRoles == {"list", "listitem", "listmarker"}

TableRoles ==
    {"table", "row", "column", "cell", "columnheader", "grid", "gridcell",
     "rowgroup", "rowheader"}

OtherRoles ==
    {"complementary", "deletion", "insertion", "marquee", "meter", "presentation",
     "progressbar", "scrollbar", "separator", "spinbutton", "timer", "Iframe"}

ImageRoles == {"image", "img", "figure"}

StructuralRoles == {"group", "generic", "none", "application", "main", "WebArea"}

DataDisplayRoles ==
    {"alert", "alertdialog", "article", "banner", "directory", "document", "dialog",
     "feed", "navigation", "menubar", "radiogroup", "region", "search", "tablist",
     "tabpanel", "toolbar", "tooltip", "form", "menu", "MenuListPopup", "modal"}

CodeRoles == {"code", "math"}

TreeRoles == {"tree", "treegrid", "treeitem"}

\* the values of the NodeRole enum
NodeRoleValues ==
    StructuralRoles \cup DataDisplayRoles \cup TextRoles \cup InteractionRoles
    \cup TableRoles \cup ListRoles \cup CodeRoles \cup ImageRoles \cup OtherRoles
    \cup TreeRoles

\* NodeRole[value.upper()].value on the role strings of the model: every member
\* name of NodeRole is its value upper-cased, so a string selects the member
\* whose value equals it up to case.  "BUTTON" and "Link" are the case variants
\* the model carries; any other string selects a member only by being its value.
MemberValue(v) ==
    CASE v = "BUTTON" -> "button"
      [] v = "Link" -> "link"
      [] OTHER -> v

\* NodeRole.from_value: a member of the enum, or the raw string
FromValue(value) ==
    IF MemberValue(value) \in NodeRoleValues
    THEN [enum |-> TRUE, value |-> MemberValue(value)]
    ELSE [enum |-> FALSE, value |-> value]

\* NodeRole.short_id: the first matching case wins
short_id(role, force_id) ==
    CASE role = "link" -> Some("L")
      [] role \in {"button", "tab", "menuitem", "radio", "checkbox",
                   "menuitemcheckbox", "menuitemradio", "switch"} -> Some("B")
      [] role \in {"combobox", "textbox", "searchbox", "listbox", "slider"} -> Some("I")
      [] role \in {"image", "img", "figure"} -> Some("F")
      [] role = "option" -> Some("O")
      [] OTHER -> IF force_id THEN Some("M") ELSE None

\* NodeRole.category
category(role) ==
    CASE role \in TextRoles -> "text"
      [] role \in StructuralRoles -> "structural"
      [] role \in DataDisplayRoles -> "data_display"
      [] role \in ListRoles -> "list"
      [] role \in TableRoles -> "table"
      [] role \in InteractionRoles -> "interaction"
      [] role \in CodeRoles -> "code"
      [] role \in TreeRoles -> "tree"
      [] role \in ImageRoles -> "image"
      [] OTHER -> "other"

\* ---------------------------------------------------------------------------
\* dom/types.py: cleanup_aria_attributes, DOMElementNode.role / .name
\* ---------------------------------------------------------------------------

\* the str of an attribute value used as an enumerated word (role, type);
\* a value of several tokens is some string that is no word of any table
Word(v) == IF Len(v) = 1 THEN v[1] ELSE "<text>"

\* "aria-" in attr
HasAriaPattern(key) == \E k \in 1..(Len(key) - 1) : key[k] = "aria"

\* pattern + pattern.join(attr.split(pattern)[1:]): attr from its first "aria-" on
RECURSIVE FromFirstAria(_)
FromFirstAria(key) ==
    IF Len(key) <= 1 THEN key
    ELSE IF Head(key) = "aria" THEN key ELSE FromFirstAria(Tail(key))

\* d[k] = v on an ordered dict
DictSet(d, k, v) ==
    IF \E i \in 1..Len(d) : d[i][1] = k
    THEN [i \in 1..Len(d) |-> IF d[i][1] = k THEN <<k, v>> ELSE d[i]]
    ELSE Append(d, <<k, v>>)

RECURSIVE DictUpdate(_, _)
DictUpdate(d, items) ==
    IF items = <<>> THEN d
    ELSE DictUpdate(DictSet(d, Head(items)[1], Head(items)[2]), Tail(items))

cleanup_aria_attributes(attrs) ==
    LET aria == SelectSeq(attrs, LAMBDA kv : HasAriaPattern(kv[1]))
        kept == SelectSeq(attrs, LAMBDA kv : ~HasAriaPattern(kv[1]))
        to_add == DictUpdate(<<>>, [i \in 1..Len(aria) |->
                                      <<FromFirstAria(aria[i][1]), aria[i][2]>>])
    IN  DictUpdate(kept, to_add)

RoleError == "<ValueError>"

\* str.lower() on the input type words of the model
LowerWord(w) ==
    CASE w = "CHECKBOX" -> "checkbox"
      [] w = "TRUE" -> "true"
      [] w = "Yes" -> "yes"
      [] w = "ON" -> "on"
      [] w = "False" -> "false"
      [] w = "NO" -> "no"
      [] w = "Off" -> "off"
      [] OTHER -> w

\* DOMElementNode.role (tag names of the model are lower case)
ElementRole(node) ==
    LET r == AttrGet(node.attributes, <<"role">>)
        t == AttrGet(node.attributes, <<"type">>)
        input_type == IF t = None THEN "text" ELSE LowerWord(Word(t[1]))
        tag == node.tag_name
    IN  IF r # None /\ r[1] # <<>> THEN Word(r[1])
        ELSE IF tag = "" THEN
            IF node.attributes = <<>> /\ node.children = <<>> THEN "none" ELSE RoleError
        ELSE CASE tag = "body" -> "WebArea"
               [] tag = "nav" -> "navigation"
               [] tag = "main" -> "main"
               [] tag = "header" -> "banner"
               [] tag = "footer" -> "contentinfo"
               [] tag = "aside" -> "complementary"
               [] tag \in {"section", "article"} -> "article"
               [] tag = "div" -> "group"
               [] tag = "a" -> "link"
               [] tag = "button" -> "button"
               [] tag = "input" ->
                    (CASE input_type \in {"button", "submit", "reset"} -> "button"
                       [] input_type = "radio" -> "radio"
                       [] input_type = "checkbox" -> "checkbox"
                       [] input_type = "search" -> "searchbox"
                       [] OTHER -> "textbox")
               [] tag = "select" -> "combobox"
               [] tag = "textarea" -> "textbox"
               [] tag = "option" -> "option"
               [] tag \in {"h1", "h2", "h3", "h4", "h5", "h6"} -> "heading"
               [] tag = "p" -> "paragraph"
               [] tag \in {"span", "strong", "em", "small", "bdi", "i"} -> "text"
               [] tag = "label" -> "LabelText"
               [] tag = "blockquote" -> "blockquote"
               [] tag \in {"code", "pre"} -> "code"
               [] tag = "time" -> "time"
               [] tag = "br" -> "LineBreak"
               [] tag \in {"ul", "ol", "dl"} -> "list"
               [] tag \in {"li", "dt", "dd"} -> "listitem"
               [] tag = "table" -> "table"
               [] tag = "tr" -> "row"
               [] tag = "td" -> "cell"
               [] tag = "th" -> "columnheader"
               [] tag \in {"thead", "tbody", "tfoot"} -> "rowgroup"
               [] tag = "img" -> "img"
               [] tag = "figure" -> "figure"
               [] tag = "iframe" -> "Iframe"
               [] tag = "form" -> "form"
               [] tag = "fieldset" -> "group"
               [] tag = "dialog" -> "dialog"
               [] tag = "progress" -> "progressbar"
               [] tag = "meter" -> "meter"
               [] tag = "menu" -> "menu"
               [] tag = "menuitem" -> "menuitem"
               [] tag = "hr" -> "separator"
               [] OTHER -> "generic"

\* DOMBaseNode.role: "text" for a text node
NodeRoleStr(node) == IF node.kind = "text" THEN "text" ELSE ElementRole(node)

\* DOMElementNode._get_text_content
RECURSIVE extract_text(_, _)
extract_text(dom, i) ==
    IF dom[i].kind = "text"
    THEN (IF dom[i].is_visible THEN dom[i].text ELSE <<>>)
    ELSE ConcatAll([k \in 1..Len(dom[i].children) |-> extract_text(dom, dom[i].children[k])])

\* the first of name, title, alt, placeholder, value with a non-blank value
RECURSIVE FirstLabel(_, _)
FirstLabel(attrs, keys) ==
    IF keys = <<>> THEN None
    ELSE LET v == AttrGet(attrs, <<Head(keys)>>)
         IN  IF v # None /\ Strip(v[1]) # <<>> THEN Some(Strip(v[1]))
             ELSE FirstLabel(attrs, Tail(keys))

\* DOMElementNode.name
ElementName(dom, i) ==
    LET node == dom[i]
        attrs == node.attributes
        tag == node.tag_name
        aria == AttrGet(attrs, <<"aria", "label">>)
        label == FirstLabel(attrs, <<"name", "title", "alt", "placeholder", "value">>)
        content == Strip(extract_text(dom, i))
    IN  IF attrs = <<>> THEN <<>>
        ELSE IF aria # None /\ aria[1] # <<>> THEN aria[1]
        ELSE IF label # None THEN label[1]
        ELSE IF tag \in {"button", "a", "label"} /\ content # <<>> THEN content
        ELSE IF tag \in {"img", "a"} /\ AttrHas(attrs, <<"src">>)
             THEN AttrGet(attrs, <<"src">>)[1]
        ELSE IF tag \in {"img", "a"} /\ AttrHas(attrs, <<"href">>)
             THEN AttrGet(attrs, <<"href">>)[1]
        ELSE IF tag = "body" THEN <<"b", "o", "d", "y", " ", "c", "o", "n", "t", "e", "n", "t">>
        ELSE IF tag = "button" /\ AttrHas(attrs, <<"type">>) THEN AttrGet(attrs, <<"type">>)[1]
        ELSE <<>>

\* DOMBaseNode.name
NodeName(dom, i) == IF dom[i].kind = "text" THEN dom[i].text ELSE ElementName(dom, i)

\* ---------------------------------------------------------------------------
\* dom/csspaths.py
\* ---------------------------------------------------------------------------

\* An xpath is the sequence of its "/"-separated steps, a step being a tag with
\* an optional numeric index ("div[2]" is [tag |-> "div", idx |-> <<2>>]).
\* xpath_to_css_path: tag[n] becomes tag:nth-of-type(n), steps joined by " > "
xpath_to_css_path(xpath) ==
    [k \in 1..Len(xpath) |->
        [part |-> xpath[k].tag,
         pseudo |-> IF xpath[k].idx = None THEN <<>>
                    ELSE <<":nth-of-type", xpath[k].idx[1]>>]]

SAFE_ATTRIBUTES ==
    {<<"id">>, <<"name">>, <<"type">>, <<"placeholder">>, <<"aria", "label">>,
     <<"aria", "labelledby">>, <<"aria", "describedby">>, <<"role">>, <<"for">>,
     <<"autocomplete">>, <<"required">>, <<"readonly">>, <<"alt">>, <<"title">>,
     <<"src">>, <<"href">>, <<"target">>,
     <<"data", "id">>, <<"data", "qa">>, <<"data", "cy">>, <<"data", "testid">>}

\* double quote, single quote, <, >, backtick, newline, carriage return, tab
CssSpecialChars == {"QUOTE", "APOS", "<", ">", "BACKTICK", "NL", "CR", "TAB"}

\* re.sub(r"\s+", " ", value)
RECURSIVE CollapseWs(_)
CollapseWs(v) ==
    IF v = <<>> THEN v
    ELSE IF Head(v) \in Whitespace
         THEN <<" ">> \o CollapseWs(LStrip(Tail(v)))
         ELSE <<Head(v)>> \o CollapseWs(Tail(v))

\* value.replace: every double quote gets a backslash in front
EscapeQuotes(v) ==
    ConcatAll([k \in 1..Len(v) |-> IF v[k] = "QUOTE" THEN <<"BACKSLASH", "QUOTE">> ELSE <<v[k]>>])

\* one "[attr...]" piece of the selector
CssAttr(kv) ==
    IF kv[2] = <<>> THEN [attr |-> kv[1], op |-> "", value |-> <<>>]
    ELSE IF \E k \in 1..Len(kv[2]) : kv[2][k] \in CssSpecialChars
         THEN [attr |-> kv[1], op |-> "*=", value |-> EscapeQuotes(Strip(CollapseWs(kv[2])))]
         ELSE [attr |-> kv[1], op |-> "=", value |-> kv[2]]

\* the characters of v up to its first whitespace
RECURSIVE FirstToken(_)
FirstToken(v) ==
    IF v = <<>> THEN v
    ELSE IF Head(v) \in Whitespace THEN <<>>
    ELSE <<Head(v)>> \o FirstToken(Tail(v))

\* str.split(): the runs of characters between whitespace
RECURSIVE SplitWs(_)
SplitWs(v) ==
    IF v = <<>> THEN <<>>
    ELSE IF Head(v) \in Whitespace THEN SplitWs(Tail(v))
    ELSE <<FirstToken(v)>> \o SplitWs(SubSeq(v, Len(FirstToken(v)) + 1, Len(v)))

AsciiLetters ==
    {"a", "b", "c", "d", "e", "f", "g", "h", "i", "j", "k", "l", "m", "n", "o", "p",
     "q", "r", "s", "t", "u", "v", "w", "x", "y", "z", "A", "B", "C", "D", "E", "F",
     "G", "H", "I", "J", "K", "L", "M", "N", "O", "P", "Q", "R", "S", "T", "U", "V",
     "W", "X", "Y", "Z"}

AsciiDigits == {"0", "1", "2", "3", "4", "5", "6", "7", "8", "9"}

\* valid_class_name_pattern.match: ^[a-zA-Z_][a-zA-Z0-9_-]*$ on a token that
\* holds no whitespace
ValidClassName(class_name) ==
    /\ class_name # <<>>
    /\ class_name[1] \in AsciiLetters \cup {"_"}
    /\ \A k \in 2..Len(class_name) :
          class_name[k] \in AsciiLetters \cup AsciiDigits \cup {"_", "-"}

\* the class tokens up to the first invalid one
RECURSIVE ValidPrefix(_)
ValidPrefix(classes) ==
    IF classes = <<>> \/ ~ValidClassName(Head(classes)) THEN <<>>
    ELSE <<Head(classes)>> \o ValidPrefix(Tail(classes))

\* build_csspath whose class loop stops at the first invalid class name
BuildCsspathStopsAtInvalid(tag_name, xpath, attributes, highlight_index) ==
    LET safe == SelectSeq(attributes,
                          LAMBDA kv : kv[1] # <<"class">> /\ kv[1] \in SAFE_ATTRIBUTES)
        class == AttrGet(attributes, <<"class">>)
    IN  [path |-> xpath_to_css_path(xpath),
         classes |-> IF class = None THEN <<>> ELSE ValidPrefix(SplitWs(class[1])),
         attrs |-> [k \in 1..Len(safe) |-> CssAttr(safe[k])]]

\* build_csspath: the path from the xpath, one ".name" per valid class name,
\* one "[attr...]" per safe attribute.  No str operation of the body can raise
\* on the inputs of the model, so the except branch is not taken.
build_csspath(tag_name, xpath, attributes, highlight_index) ==
    LET safe == SelectSeq(attributes,
                          LAMBDA kv : kv[1] # <<"class">> /\ kv[1] \in SAFE_ATTRIBUTES)
        class == AttrGet(attributes, <<"class">>)
    IN  [path |-> xpath_to_css_path(xpath),
         classes |-> IF class = None THEN <<>>
                     ELSE SelectSeq(SplitWs(class[1]), ValidClassName),
         attrs |-> [k \in 1..Len(safe) |-> CssAttr(safe[k])]]

\* ---------------------------------------------------------------------------
\* dom/parsing.py
\* ---------------------------------------------------------------------------

\* str(hash(x)): an opaque token of x (collisions are not modelled)
Hash(x) == <<"hash", x>>

DOMTextNode(text, is_visible, parent) ==
    [kind |-> "text", parent |-> parent, is_visible |-> is_visible,
     highlight_index |-> None, notte_id |-> None, children |-> <<>>, text |-> text,
     tag_name |-> "", xpath |-> <<>>, in_iframe |-> FALSE, in_shadow_root |-> FALSE,
     css_path |-> [path |-> <<>>, classes |-> <<>>, attrs |-> <<>>], iframe_parent_css_selectors |-> <<>>,
     notte_selector |-> <<>>, attributes |-> <<>>, is_interactive |-> FALSE,
     is_top_element |-> FALSE, shadow_root |-> FALSE, is_editable |-> FALSE]

\* DOMElementNode(...) with its __post_init__ (cleanup of the aria attributes)
DOMElementNode(n, parent, css_path, in_iframe, in_shadow_root, iframe_paths, selector, children) ==
    [kind |-> "element", parent |-> parent, is_visible |-> n.isVisible,
     highlight_index |-> n.highlightIndex, notte_id |-> None, children |-> children,
     text |-> <<>>, tag_name |-> n.tagName[1], xpath |-> n.xpath[1],
     in_iframe |-> in_iframe, in_shadow_root |-> in_shadow_root, css_path |-> css_path,
     iframe_parent_css_selectors |-> iframe_paths, notte_selector |-> selector,
     attributes |-> cleanup_aria_attributes(n.attributes),
     is_interactive |-> n.isInteractive, is_top_element |-> n.isTopElement,
     shadow_root |-> n.shadowRoot, is_editable |-> n.isEditable]

\* ParseDomTreePipe._parse_node on the record rw[i]: status "ok" with the arena
\* entries of the parsed subtree, "none" (record dropped) or "error" (ValueError)
RECURSIVE _parse_node(_, _, _, _, _, _, _)
_parse_node(rw, i, parent, in_iframe, in_shadow_root, iframe_parent_css_paths, notte_selector) ==
    LET n == rw[i]
    IN  IF n.type = "TEXT_NODE"
        THEN [status |-> "ok", nodes |-> i :> DOMTextNode(n.text, n.isVisible, parent)]
        ELSE IF n.tagName = None
        THEN (IF n.xpath = None /\ n.attributes = <<>> /\ n.children = <<>>
              THEN [status |-> "none", nodes |-> <<>>]
              ELSE [status |-> "error", nodes |-> <<>>])
        ELSE IF n.xpath = None
        THEN [status |-> "error", nodes |-> <<>>]
        ELSE
          LET css_path == build_csspath(n.tagName[1], n.xpath[1], n.attributes, n.highlightIndex)
              selector == notte_selector \o <<Hash(n.xpath[1]), Hash(css_path)>>
              shadow == in_shadow_root \/ n.shadowRoot
              is_iframe == n.tagName[1] = "iframe"
              iframe == in_iframe \/ is_iframe
              paths == IF is_iframe THEN Append(iframe_parent_css_paths, css_path)
                       ELSE iframe_parent_css_paths
              kids == [k \in 1..Len(n.children) |->
                         _parse_node(rw, n.children[k], i, iframe, shadow, paths, selector)]
              kept == SelectSeq(n.children,
                                LAMBDA c : \E k \in 1..Len(kids) :
                                              n.children[k] = c /\ kids[k].status = "ok")
          IN  IF \E k \in 1..Len(kids) : kids[k].status = "error"
              THEN [status |-> "error", nodes |-> <<>>]
              ELSE [status |-> "ok",
                    nodes |-> (i :> DOMElementNode(n, parent, css_path, iframe, shadow,
                                                   iframe_parent_css_paths, selector, kept))
                              @@ MergeAll([k \in 1..Len(kids) |-> kids[k].nodes])]

PageUrl == <<"url">>

\* parse_dom_tree that reports a root parsed to nothing like any other
\* malformed record
ParseDomTreeNoEmptyCheck(rw) ==
    LET parsed == IF rw = <<>> THEN [status |-> "none", nodes |-> <<>>]
                  ELSE _parse_node(rw, 1, 0, FALSE, FALSE, <<>>, PageUrl)
    IN  IF parsed.status = "ok" THEN [status |-> "ok", dom |-> parsed.nodes]
        ELSE [status |-> "ValueError", dom |-> <<>>]

\* ParseDomTreePipe.parse_dom_tree: the evaluated page tree is the arena rw,
\* rooted at record 1 (empty when the evaluation gave None); a root that
\* parses to nothing is a SnapshotProcessingError
parse_dom_tree(rw) ==
    LET parsed == IF rw = <<>> THEN [status |-> "none", nodes |-> <<>>]
                  ELSE _parse_node(rw, 1, 0, FALSE, FALSE, <<>>, PageUrl)
    IN  CASE parsed.status = "ok" -> [status |-> "ok", dom |-> parsed.nodes]
          [] parsed.status = "none" -> [status |-> "SnapshotProcessingError", dom |-> <<>>]
          [] OTHER -> [status |-> "ValueError", dom |-> <<>>]

\* ---------------------------------------------------------------------------
\* dom/id_generation.py
\* ---------------------------------------------------------------------------

IdPrefixes == {"L", "B", "I", "F", "O", "M"}

\* IdLoop with the counter of a prefix never advanced
RECURSIVE IdLoopNoIncrement(_, _, _)
IdLoopNoIncrement(dom, stack, id_counter) ==
    IF stack = <<>> THEN dom
    ELSE
      LET i == stack[Len(stack)]
          popped == SubSeq(stack, 1, Len(stack) - 1)
          node == dom[i]
          role == FromValue(NodeRoleStr(node))
          id == short_id(role.value, TRUE)
          pushed == popped \o [k \in 1..Len(node.children) |->
                                 node.children[Len(node.children) + 1 - k]]
      IN  IF role.enum /\ node.highlight_index # None
          THEN IdLoopNoIncrement([dom EXCEPT ![i].notte_id = <<id[1], id_counter[id[1]]>>],
                                 pushed, id_counter)
          ELSE IdLoopNoIncrement(dom, pushed, id_counter)

\* the loop of generate_sequential_ids that does not look at the highlight
\* index: every node with a role of the enum gets an id
RECURSIVE IdLoopAnyMappedRole(_, _, _)
IdLoopAnyMappedRole(dom, stack, id_counter) ==
    IF stack = <<>> THEN dom
    ELSE
      LET i == stack[Len(stack)]
          popped == SubSeq(stack, 1, Len(stack) - 1)
          node == dom[i]
          role == FromValue(NodeRoleStr(node))
          id == short_id(role.value, TRUE)
          pushed == popped \o [k \in 1..Len(node.children) |->
                                 node.children[Len(node.children) + 1 - k]]
      IN  IF role.enum
          THEN IdLoopAnyMappedRole([dom EXCEPT ![i].notte_id = <<id[1], id_counter[id[1]]>>],
                                   pushed,
                                   [id_counter EXCEPT ![id[1]] = @ + 1])
          ELSE IdLoopAnyMappedRole(dom, pushed, id_counter)

\* the loop of generate_sequential_ids pushing the children as they are, the
\* last child on top of the stack
RECURSIVE IdLoopNoReverse(_, _, _)
IdLoopNoReverse(dom, stack, id_counter) ==
    IF stack = <<>> THEN dom
    ELSE
      LET i == stack[Len(stack)]
          popped == SubSeq(stack, 1, Len(stack) - 1)
          node == dom[i]
          role == FromValue(NodeRoleStr(node))
          id == short_id(role.value, TRUE)
          assign == role.enum /\ node.highlight_index # None
          pushed == popped \o node.children
      IN  IF assign
          THEN IdLoopNoReverse([dom EXCEPT ![i].notte_id = <<id[1], id_counter[id[1]]>>],
                               pushed,
                               [id_counter EXCEPT ![id[1]] = @ + 1])
          ELSE IdLoopNoReverse(dom, pushed, id_counter)

\* the loop of generate_sequential_ids: stack of arena indices, per-prefix
\* counters (a defaultdict starting at 1), notte_id written into the arena
RECURSIVE IdLoop(_, _, _)
IdLoop(dom, stack, id_counter) ==
    IF stack = <<>> THEN dom
    ELSE
      LET i == stack[Len(stack)]
          popped == SubSeq(stack, 1, Len(stack) - 1)
          node == dom[i]
          role == FromValue(NodeRoleStr(node))
          id == short_id(role.value, TRUE)
          assign == role.enum /\ node.highlight_index # None
          pushed == popped \o [k \in 1..Len(node.children) |->
                                 node.children[Len(node.children) + 1 - k]]
      IN  IF assign
          THEN IdLoop([dom EXCEPT ![i].notte_id = <<id[1], id_counter[id[1]]>>],
                      pushed,
                      [id_counter EXCEPT ![id[1]] = @ + 1])
          ELSE IdLoop(dom, pushed, id_counter)

generate_sequential_ids(dom) ==
    IdLoop(dom, <<1>>, [p \in IdPrefixes |-> 1])

\* ---------------------------------------------------------------------------
\* browser/dom_tree.py
\* ---------------------------------------------------------------------------

\* the fields of DomAttributes (tag_name is passed separately)
DomAttributeFields ==
    {<<"modal">>, <<"required">>, <<"visible">>, <<"selected">>, <<"checked">>,
     <<"enabled">>, <<"focused">>, <<"disabled">>, <<"pressed">>, <<"type">>,
     <<"value">>, <<"valuemin">>, <<"valuemax">>, <<"description">>,
     <<"autocomplete">>, <<"haspopup">>, <<"accesskey">>, <<"autofocus">>,
     <<"tabindex">>, <<"multiselectable">>, <<"class_name">>, <<"href">>, <<"src">>,
     <<"srcset">>, <<"target">>, <<"ping">>, <<"data", "src">>, <<"data", "srcset">>,
     <<"placeholder">>, <<"title">>, <<"alt">>, <<"name">>, <<"autocorrect">>,
     <<"autocapitalize">>, <<"spellcheck">>, <<"maxlength">>, <<"width">>,
     <<"height">>, <<"size">>, <<"rows">>, <<"lang">>, <<"dir">>, <<"action">>,
     <<"role">>, <<"aria", "label">>, <<"aria", "labelledby">>,
     <<"aria", "describedby">>, <<"aria", "hidden">>, <<"aria", "expanded">>,
     <<"aria", "controls">>, <<"aria", "haspopup">>, <<"aria", "current">>,
     <<"aria", "autocomplete">>, <<"aria", "selected">>, <<"aria", "modal">>,
     <<"aria", "disabled">>, <<"aria", "valuenow">>, <<"aria", "live">>,
     <<"aria", "atomic">>, <<"aria", "valuemax">>, <<"aria", "valuemin">>,
     <<"aria", "level">>, <<"aria", "owns">>, <<"aria", "multiselectable">>,
     <<"aria", "colindex">>, <<"aria", "colspan">>, <<"aria", "rowindex">>,
     <<"aria", "rowspan">>, <<"aria", "description">>, <<"aria", "activedescendant">>,
     <<"hidden">>, <<"expanded">>}

\* k.startswith("data-") or "js" or "__" or "g-" on the keys of the model
IgnoredPrefix(key) ==
    \/ Len(key) > 1 /\ key[1] \in {"data", "g"}
    \/ key[1] \in {"js", "__"}

\* the keys safe_init never reports (dashes already replaced)
ExcludedKeys ==
    {<<"browser_user_highlight_id">>, <<"class">>, <<"style">>, <<"id">>,
     <<"data_jsl10n">>, <<"keyshortcuts">>, <<"for">>, <<"rel">>,
     <<"ng", "non", "bindable">>, <<"c", "wiz">>, <<"ssk">>, <<"soy", "skip">>,
     <<"key">>, <<"method">>, <<"eid">>, <<"view">>, <<"pivot">>}

\* DomErrorBuffer._max_samples_per_key
MaxSamplesPerKey == 5

\* str(value)[:50]: the first token of a value of the model stands for its
\* first 50 characters, a second token for what follows them
Str50(value) == IF Len(value) > 1 THEN SubSeq(value, 1, 1) ELSE value

\* add_error that appends a sample without looking for it in the buffer
AddErrorNoDedup(buffer, extra_keys, values) ==
    [key \in DOMAIN buffer \cup extra_keys |->
        LET old == IF key \in DOMAIN buffer THEN buffer[key] ELSE <<>>
            str_v == Str50(AttrGet(values, key)[1])
        IN  IF key \in extra_keys /\ Len(old) < MaxSamplesPerKey
            THEN Append(old, str_v)
            ELSE old]

\* DomErrorBuffer.add_error: the buffer maps a key to its samples; the keys of
\* extra_keys are handled one by one and do not affect each other
add_error(buffer, extra_keys, values) ==
    [key \in DOMAIN buffer \cup extra_keys |->
        LET old == IF key \in DOMAIN buffer THEN buffer[key] ELSE <<>>
            str_v == Str50(AttrGet(values, key)[1])
        IN  IF key \in extra_keys /\ Len(old) < MaxSamplesPerKey
                /\ \A k \in 1..Len(old) : old[k] # str_v
            THEN Append(old, str_v)
            ELSE old]

\* DomErrorBuffer.flush: the buffer is logged, if it holds anything, and cleared
flush(buffer) == [key \in {} |-> <<>>]

\* the extra_keys of safe_init: the keys kept by the prefix filter that are
\* neither fields of DomAttributes nor excluded
ExtraKeys(attributes) ==
    LET renamed == [k \in 1..Len(attributes) |->
                      IF attributes[k][1] = <<"class">> THEN <<"class_name">>
                      ELSE attributes[k][1]]
    IN  {renamed[k] : k \in {j \in 1..Len(renamed) : ~IgnoredPrefix(renamed[j])}}
        \ (DomAttributeFields \cup ExcludedKeys)

\* DomAttributes.safe_init: class becomes class_name, keys with an ignored
\* prefix are dropped, dashes become underscores (the token sequence names the
\* field), and only the fields of the dataclass are kept (others are None)
safe_init(tag_name, attributes) ==
    LET renamed == [k \in 1..Len(attributes) |->
                      IF attributes[k][1] = <<"class">>
                      THEN <<(<<"class_name">>), attributes[k][2]>>
                      ELSE attributes[k]]
        kept == SelectSeq(renamed, LAMBDA kv : ~IgnoredPrefix(kv[1])
                                               /\ kv[1] \in DomAttributeFields)
    IN  [tag_name |-> tag_name,
         fields |-> {<<kept[k][1], kept[k][2]>> : k \in 1..Len(kept)}]

NodeSelectors(css, xpath, notte, in_iframe, iframe_paths, in_shadow_root) ==
    [css_selector |-> css, xpath_selector |-> xpath, notte_selector |-> notte,
     in_iframe |-> in_iframe, in_shadow_root |-> in_shadow_root,
     iframe_parent_css_selectors |-> iframe_paths, playwright_selector |-> None]

ComputedDomAttributes(in_viewport, is_interactive, is_top_element, is_editable, shadow_root, highlight_index, selectors) ==
    [in_viewport |-> in_viewport, is_interactive |-> is_interactive,
     is_top_element |-> is_top_element, is_editable |-> is_editable,
     shadow_root |-> shadow_root, highlight_index |-> highlight_index,
     selectors |-> selectors]

\* DomNode(...) with __post_init__: subtree_ids is the own id followed by the
\* children's lists, and a str role is looked up in NodeRole
DomNode(id, type, role, text, children, attributes, computed_attributes) ==
    [id |-> id, type |-> type,
     role |-> IF role.enum THEN role ELSE FromValue(role.value),
     text |-> text, children |-> children, attributes |-> attributes,
     computed_attributes |-> computed_attributes,
     subtree_ids |-> (IF id = None THEN <<>> ELSE <<id>>)
                     \o ConcatAll([k \in 1..Len(children) |-> children[k].subtree_ids])]

get_role_str(node) == node.role.value

\* DOMTextNode.to_notte_domnode / DOMElementNode.to_notte_domnode
RECURSIVE to_notte_domnode(_, _)
to_notte_domnode(dom, i) ==
    LET n == dom[i]
    IN  IF n.kind = "text"
        THEN DomNode(n.notte_id, "text", FromValue(NodeRoleStr(n)), NodeName(dom, i), <<>>,
                     None,
                     ComputedDomAttributes(n.is_visible, FALSE, FALSE, FALSE, FALSE, None, None))
        ELSE DomNode(n.notte_id,
                     IF n.is_interactive THEN "interaction" ELSE "other",
                     FromValue(NodeRoleStr(n)),
                     NodeName(dom, i),
                     [k \in 1..Len(n.children) |-> to_notte_domnode(dom, n.children[k])],
                     Some(safe_init(n.tag_name, n.attributes)),
                     ComputedDomAttributes(n.is_visible, n.is_interactive, n.is_top_element,
                         n.is_editable, n.shadow_root, n.highlight_index,
                         Some(NodeSelectors(n.css_path, n.xpath, n.notte_selector, n.in_iframe,
                                            n.iframe_parent_css_selectors, n.in_shadow_root))))

\* ParseDomTreePipe.forward: parse, assign ids, convert.  The role property
\* raises ValueError on an element with an empty tag name that has attributes
\* or children; generate_sequential_ids reads the role of every node.
ParseDomTreePipe_forward(rw) ==
    LET parsed == parse_dom_tree(rw)
    IN  IF parsed.status # "ok" THEN [status |-> parsed.status, tree |-> None]
        ELSE IF \E i \in DOMAIN parsed.dom : NodeRoleStr(parsed.dom[i]) = RoleError
        THEN [status |-> "ValueError", tree |-> None]
        ELSE [status |-> "ok",
              tree |-> Some(to_notte_domnode(generate_sequential_ids(parsed.dom), 1))]

\* DomNode.is_interaction
is_interaction(node) ==
    /\ node.role.enum
    /\ node.id # None
    /\ (node.type = "interaction" \/ category(node.role.value) = "interaction")

\* DomNode.flatten: the nodes of the tree in pre-order
RECURSIVE flatten(_)
flatten(node) ==
    <<node>> \o ConcatAll([k \in 1..Len(node.children) |-> flatten(node.children[k])])

\* the value of a field of DomAttributes, None when the attribute is absent
FieldGet(attributes, key) ==
    LET hits == {kv \in attributes.fields : kv[1] = key}
    IN  IF hits = {} THEN None ELSE Some((CHOOSE kv \in hits : TRUE)[2])

\* a field that is set and falsy (an attribute value is a str: the empty one)
SetAndFalsy(attributes, key) ==
    FieldGet(attributes, key) # None /\ FieldGet(attributes, key)[1] = <<>>

\* DomAttributes.get_resource_url: the first field that is set and not empty
get_resource_url(attributes) ==
    LET set(key) == FieldGet(attributes, key) # None
                    /\ Len(FieldGet(attributes, key)[1]) > 0
    IN  CASE set(<<"src">>) -> FieldGet(attributes, <<"src">>)
          [] set(<<"srcset">>) -> FieldGet(attributes, <<"srcset">>)
          [] set(<<"data", "src">>) -> FieldGet(attributes, <<"data", "src">>)
          [] set(<<"data", "srcset">>) -> FieldGet(attributes, <<"data", "srcset">>)
          [] set(<<"target">>) -> FieldGet(attributes, <<"target">>)
          [] set(<<"href">>) -> FieldGet(attributes, <<"href">>)
          [] OTHER -> None

\* " ".join(texts)
RECURSIVE JoinWithSpace(_)
JoinWithSpace(texts) ==
    IF texts = <<>> THEN <<>>
    ELSE IF Len(texts) = 1 THEN texts[1]
    ELSE texts[1] \o <<" ">> \o JoinWithSpace(Tail(texts))

\* DomNode.inner_text
RECURSIVE inner_text(_)
inner_text(node) ==
    IF node.attributes # None /\ node.attributes[1].tag_name = "input"
    THEN (IF node.text # <<>> THEN node.text
          ELSE IF FieldGet(node.attributes[1], <<"placeholder">>) # None
               THEN FieldGet(node.attributes[1], <<"placeholder">>)[1]
               ELSE <<>>)
    ELSE IF node.type = "text" THEN node.text
    ELSE
      LET kept(child) ==
              /\ inner_text(child) # <<>>
              /\ \/ child.attributes = None
                 \/ /\ ~SetAndFalsy(child.attributes[1], <<"hidden">>)
                    /\ ~SetAndFalsy(child.attributes[1], <<"visible">>)
                    /\ ~SetAndFalsy(child.attributes[1], <<"enabled">>)
          texts == SelectSeq(node.children, kept)
      IN  JoinWithSpace([k \in 1..Len(texts) |-> inner_text(texts[k])])

\* DomNode.to_interaction_node: an InteractionDomNode (no children, text is the
\* inner text), or InvalidInternalCheckError when the node type is not
\* INTERACTION or InteractionDomNode.__post_init__ rejects a null id
to_interaction_node(node) ==
    IF node.type # "interaction" \/ node.id = None
    THEN [status |-> "InvalidInternalCheckError", node |-> None]
    ELSE [status |-> "ok",
          node |-> Some(DomNode(node.id, "interaction", node.role, inner_text(node), <<>>,
                                node.attributes, node.computed_attributes))]

\* DomNode.interaction_nodes: the conversion of every node that is_interaction
interaction_nodes(root) ==
    LET inodes == SelectSeq(flatten(root), is_interaction)
        conv == [k \in 1..Len(inodes) |-> to_interaction_node(inodes[k])]
    IN  IF \E k \in 1..Len(conv) : conv[k].status # "ok"
        THEN [status |-> "InvalidInternalCheckError", nodes |-> <<>>]
        ELSE [status |-> "ok", nodes |-> [k \in 1..Len(conv) |-> conv[k].node[1]]]

\* DomNode.find: depth-first, the first node carrying the id
RECURSIVE find(_, _)
find(node, id) ==
    IF node.id = id
    THEN (IF is_interaction(node) THEN to_interaction_node(node)
          ELSE [status |-> "ok", node |-> Some(node)])
    ELSE
      LET sub == [k \in 1..Len(node.children) |-> find(node.children[k], id)]
          hits == {k \in 1..Len(sub) : sub[k].status # "ok" \/ sub[k].node # None}
      IN  IF hits = {} THEN [status |-> "ok", node |-> None]
          ELSE sub[CHOOSE k \in hits : \A j \in hits : k <= j]

\* ---------------------------------------------------------------------------
\* dom/pruning.py and DomNode.subtree_filter
\* ---------------------------------------------------------------------------

prune_empty_texts(node) ==
    ~(node.type = "text" /\ Strip(node.text) = <<>>)

\* the filters handed to subtree_filter: prune_empty_texts, only_failed_actions
\* (ids: the failed action ids) and only_roles (roles: the excluded roles)
Ft(f, node) ==
    CASE f.kind = "prune_empty_texts" -> prune_empty_texts(node)
      [] f.kind = "only_failed_actions" ->
            \E k \in 1..Len(node.subtree_ids) : node.subtree_ids[k] \in f.ids
      [] f.kind = "only_roles" -> ~node.role.enum \/ node.role.value \notin f.roles

\* subtree_filter that tests the root only and keeps its subtree whole
SubtreeFilterRootOnly(node, f) ==
    IF ~Ft(f, node) THEN None ELSE Some(node)

\* DomNode.subtree_filter (inner): None, or the rebuilt node
RECURSIVE subtree_filter(_, _)
subtree_filter(node, f) ==
    IF ~Ft(f, node) THEN None
    ELSE
      LET inner == [k \in 1..Len(node.children) |-> subtree_filter(node.children[k], f)]
          filtered_children == ConcatAll(inner)
      IN  IF node.id = None /\ filtered_children = <<>> /\ Strip(node.text) = <<>>
          THEN None
          ELSE Some(DomNode(node.id, node.type, node.role, node.text, filtered_children,
                            node.attributes, node.computed_attributes))

\* DomNode.subtree_without
subtree_without(node, roles) ==
    LET filtered == subtree_filter(node, [kind |-> "only_roles", roles |-> roles])
    IN  IF filtered = None
        THEN [status |-> "NodeFilteringResultsInEmptyGraph", graph |-> None]
        ELSE [status |-> "ok", graph |-> filtered]

\* subgraph_without that counts every interaction node as a failed action
SubgraphKeepsKnown(dom_node, actions, roles) ==
    LET inodes == interaction_nodes(dom_node)
        failed_actions == {inodes.nodes[k].id : k \in 1..Len(inodes.nodes)}
    IN  [status |-> "ok",
         graph |-> subtree_filter(dom_node, [kind |-> "only_failed_actions",
                                             ids |-> failed_actions])]

\* BrowserSnapshot.subgraph_without; actions is the set of the ids of the
\* actions handed in, the result is no snapshot (None) or the snapshot's tree
subgraph_without(dom_node, actions, roles) ==
    IF actions = {} /\ roles # None THEN subtree_without(dom_node, roles[1])
    ELSE
      LET inodes == interaction_nodes(dom_node)
          failed_actions == {inodes.nodes[k].id : k \in 1..Len(inodes.nodes)} \ actions
      IN  IF inodes.status # "ok" THEN [status |-> inodes.status, graph |-> None]
          ELSE [status |-> "ok",
                graph |-> subtree_filter(dom_node, [kind |-> "only_failed_actions",
                                                    ids |-> failed_actions])]

\* prioritize_role without the two list / paragraph rules
PrioritizeRoleNoListRule(parent, child) ==
    LET low_priority_roles == {"none", "generic", "group"}
        node_role == get_role_str(parent)
        child_role == get_role_str(child)
    IN  IF node_role = child_role THEN node_role
        ELSE CASE node_role \in low_priority_roles /\ child_role \in low_priority_roles -> "group"
               [] node_role \in low_priority_roles /\ child_role \notin low_priority_roles -> child_role
               [] node_role \notin low_priority_roles /\ child_role \in low_priority_roles -> node_role
               [] OTHER ->
                    IF child.id # None THEN child_role
                    ELSE IF parent.id # None THEN node_role
                    ELSE child_role

\* prioritize_role that answers generic for two low-priority roles
PrioritizeRoleBothLowGeneric(parent, child) ==
    LET low_priority_roles == {"none", "generic", "group"}
        node_role == get_role_str(parent)
        child_role == get_role_str(child)
    IN  IF node_role = child_role THEN node_role
        ELSE CASE node_role \in low_priority_roles /\ child_role \in low_priority_roles -> "generic"
               [] node_role \in low_priority_roles /\ child_role \notin low_priority_roles -> child_role
               [] node_role \notin low_priority_roles /\ child_role \in low_priority_roles -> node_role
               [] OTHER ->
                    IF node_role \in {"listitem", "paragraph", "main"} THEN child_role
                    ELSE IF child_role \in {"list", "paragraph"} THEN node_role
                    ELSE IF child.id # None THEN child_role
                    ELSE IF parent.id # None THEN node_role
                    ELSE child_role

prioritize_role(parent, child) ==
    LET low_priority_roles == {"none", "generic", "group"}
        node_role == get_role_str(parent)
        child_role == get_role_str(child)
    IN  IF node_role = child_role THEN node_role
        ELSE CASE node_role \in low_priority_roles /\ child_role \in low_priority_roles -> "group"
               [] node_role \in low_priority_roles /\ child_role \notin low_priority_roles -> child_role
               [] node_role \notin low_priority_roles /\ child_role \in low_priority_roles -> node_role
               [] OTHER ->
                    IF node_role \in {"listitem", "paragraph", "main"} THEN child_role
                    ELSE IF child_role \in {"list", "paragraph"} THEN node_role
                    ELSE IF child.id # None THEN child_role
                    ELSE IF parent.id # None THEN node_role
                    ELSE child_role

prioritize_text(parent, child) ==
    LET ptext == Strip(parent.text)
        ctext == Strip(child.text)
    IN  IF Len(ptext) = 0 THEN ctext
        ELSE IF Len(ctext) = 0 THEN ptext
        ELSE IF IsSubstr(ctext, ptext) THEN ptext
        ELSE IF IsSubstr(ptext, ctext) THEN ctext
        ELSE ptext \o <<" ">> \o ctext

\* build_node that always takes the attributes of the parent
BuildNodeParentAttributes(parent, child, child_priority) ==
    DomNode(IF child_priority THEN child.id ELSE parent.id,
            IF child_priority THEN child.type ELSE parent.type,
            [enum |-> FALSE, value |-> prioritize_role(parent, child)],
            prioritize_text(parent, child),
            child.children,
            parent.attributes,
            parent.computed_attributes)

\* build_node of _fold_single_child
\* build_node that always takes the computed attributes of the child
BuildNodeChildComputed(parent, child, child_priority) ==
    DomNode(IF child_priority THEN child.id ELSE parent.id,
            IF child_priority THEN child.type ELSE parent.type,
            [enum |-> FALSE, value |-> prioritize_role(parent, child)],
            prioritize_text(parent, child),
            child.children,
            IF child_priority THEN child.attributes ELSE parent.attributes,
            child.computed_attributes)

\* build_node that always takes the type of the parent
BuildNodeParentType(parent, child, child_priority) ==
    DomNode(IF child_priority THEN child.id ELSE parent.id,
            parent.type,
            [enum |-> FALSE, value |-> prioritize_role(parent, child)],
            prioritize_text(parent, child),
            child.children,
            IF child_priority THEN child.attributes ELSE parent.attributes,
            IF child_priority THEN child.computed_attributes ELSE parent.computed_attributes)

build_node(parent, child, child_priority) ==
    DomNode(IF child_priority THEN child.id ELSE parent.id,
            IF child_priority THEN child.type ELSE parent.type,
            [enum |-> FALSE, value |-> prioritize_role(parent, child)],
            prioritize_text(parent, child),
            child.children,
            IF child_priority THEN child.attributes ELSE parent.attributes,
            IF child_priority THEN child.computed_attributes ELSE parent.computed_attributes)

\* _fold_single_child with the child always given priority
FoldChildAlwaysWins(parent, child) == build_node(parent, child, TRUE)

\* _fold_single_child that merges into the parent when both carry an id
FoldMergesWhenBothHaveIds(parent, child) ==
    CASE parent.id = None /\ child.id = None ->
            IF get_role_str(child) \in ListRoles \/ get_role_str(child) \in StructuralRoles
            THEN build_node(parent, child, FALSE)
            ELSE build_node(parent, child, TRUE)
      [] parent.id = None /\ child.id # None -> build_node(parent, child, TRUE)
      [] OTHER -> build_node(parent, child, FALSE)

_fold_single_child(parent, child) ==
    CASE parent.id = None /\ child.id = None ->
            IF get_role_str(child) \in ListRoles \/ get_role_str(child) \in StructuralRoles
            THEN build_node(parent, child, FALSE)
            ELSE build_node(parent, child, TRUE)
      [] parent.id = None /\ child.id # None -> build_node(parent, child, TRUE)
      [] parent.id # None /\ child.id = None -> build_node(parent, child, FALSE)
      [] OTHER -> parent

\* fold_single_childs that merges a node with its only child without folding
\* the child first
FoldTopOnly(node) ==
    IF Len(node.children) = 1 THEN _fold_single_child(node, node.children[1]) ELSE node

RECURSIVE fold_single_childs(_)
fold_single_childs(node) ==
    IF Len(node.children) = 0 THEN node
    ELSE
      LET pruned_children == [k \in 1..Len(node.children) |->
                                fold_single_childs(node.children[k])]
      IN  IF Len(pruned_children) = 1
          THEN _fold_single_child(node, pruned_children[1])
          ELSE DomNode(node.id, node.type, node.role, node.text, pruned_children,
                       node.attributes, node.computed_attributes)

\* prune_dom_tree that falls back to the root alone, without its children
PruneFallsBackToRootAlone(node) ==
    LET fnode == subtree_filter(node, [kind |-> "prune_empty_texts"])
    IN  IF fnode = None
        THEN DomNode(node.id, node.type, node.role, node.text, <<>>, node.attributes,
                     node.computed_attributes)
        ELSE fold_single_childs(fnode[1])

prune_dom_tree(node) ==
    LET fnode == subtree_filter(node, [kind |-> "prune_empty_texts"])
    IN  fold_single_childs(IF fnode = None THEN node ELSE fnode[1])

\* ---------------------------------------------------------------------------
\* dom/locate.py (selectors_through_shadow_dom) and resolution.py
\* ---------------------------------------------------------------------------

\* the nodes from the one carrying the id up to the root (node.parent links)
RECURSIVE ChainTo(_, _)
ChainTo(node, id) ==
    IF node.id = id THEN <<node>>
    ELSE
      LET sub == [k \in 1..Len(node.children) |-> ChainTo(node.children[k], id)]
          hits == {k \in 1..Len(sub) : sub[k] # <<>>}
      IN  IF hits = {} THEN <<>>
          ELSE sub[CHOOSE k \in hits : \A j \in hits : k <= j] \o <<node>>

\* a piece of selector text that is not an xpath step
Tok(w) == [tag |-> w, idx |-> None]

\* an xpath as the text the selector strings are made of: its steps with a
\* SLASH between them
RECURSIVE XPathText(_)
XPathText(xpath) ==
    IF xpath = <<>> THEN <<>>
    ELSE IF Len(xpath) = 1 THEN <<xpath[1]>>
    ELSE <<xpath[1], Tok("SLASH")>> \o XPathText(Tail(xpath))

\* str.replace(old, ""): every occurrence of old removed, left to right
RECURSIVE Remove(_, _)
Remove(s, old) ==
    IF old = <<>> \/ Len(s) < Len(old) THEN s
    ELSE IF SubSeq(s, 1, Len(old)) = old THEN Remove(SubSeq(s, Len(old) + 1, Len(s)), old)
    ELSE <<s[1]>> \o Remove(Tail(s), old)

\* the while loop of selectors_through_shadow_dom over the nodes that have a
\* parent; xpaths is the list of fragments, the last one first in the result
RECURSIVE ShadowLoop(_, _, _)
ShadowLoop(chain, k, xpaths) ==
    IF k >= Len(chain) THEN [status |-> "ok", xpaths |-> xpaths]
    ELSE
      LET node == chain[k]
          selectors == node.computed_attributes.selectors
      IN  IF selectors = None THEN [status |-> "ValueError", xpaths |-> xpaths]
          ELSE IF ~node.computed_attributes.shadow_root THEN ShadowLoop(chain, k + 1, xpaths)
          ELSE IF Len(selectors[1].xpath_selector) = 0
          THEN (IF node.attributes = None THEN [status |-> "ValueError", xpaths |-> xpaths]
                ELSE ShadowLoop(chain, k + 1, Append(xpaths, <<Tok(node.attributes[1].tag_name)>>)))
          ELSE
            LET own == XPathText(selectors[1].xpath_selector)
                cut == [xpaths EXCEPT ![Len(xpaths)] = Remove(xpaths[Len(xpaths)], own)]
            IN  ShadowLoop(chain, k + 1,
                    Append(cut, IF k + 1 = Len(chain) THEN own ELSE <<Tok("xpath=")>> \o own))

RECURSIVE JoinReversed(_)
JoinReversed(xpaths) ==
    IF Len(xpaths) = 1 THEN xpaths[1]
    ELSE xpaths[Len(xpaths)] \o <<Tok(" >> ")>> \o JoinReversed(SubSeq(xpaths, 1, Len(xpaths) - 1))

\* selectors_through_shadow_dom; chain is the node followed by its ancestors
selectors_through_shadow_dom(chain) ==
    LET root_selectors == chain[1].computed_attributes.selectors
    IN  IF root_selectors = None THEN [status |-> "ValueError", selectors |-> None]
        ELSE
          LET loop == ShadowLoop(chain, 1,
                          << <<Tok("xpath=")>> \o XPathText(root_selectors[1].xpath_selector) >>)
          IN  IF loop.status # "ok" THEN [status |-> loop.status, selectors |-> None]
              ELSE [status |-> "ok",
                    selectors |-> Some([root_selectors[1] EXCEPT
                                          !.xpath_selector = JoinReversed(loop.xpaths)])]

\* NodeResolutionPipe.resolve_selectors
resolve_selectors(chain) ==
    LET node == chain[1]
    IN  IF node.computed_attributes.selectors = None
        THEN [status |-> "FailedNodeResolutionError", selectors |-> None]
        ELSE IF node.computed_attributes.selectors[1].in_shadow_root
        THEN selectors_through_shadow_dom(chain)
        ELSE [status |-> "ok", selectors |-> node.computed_attributes.selectors]

\* the results of the resolver: a resolved action, or the error raised
Resolved(action) == [status |-> "ok", reason |-> "", action |-> Some(action)]

Raised(error, reason) == [status |-> error, reason |-> reason, action |-> None]

\* ClickAction / FillAction / CheckAction / SelectDropdownOptionAction
InteractionAction(type, id, value, press_enter, selector, text_label) ==
    [kind |-> "interaction", type |-> type, id |-> id, value |-> value,
     press_enter |-> press_enter, selector |-> selector, text_label |-> text_label]

\* _parse_boolean that compares the value as written
ParseBooleanCaseSensitive(value) ==
    IF value \in {"true", "1", "yes", "on"} THEN Some(TRUE)
    ELSE IF value \in {"false", "0", "no", "off"} THEN Some(FALSE)
    ELSE None

\* NotteActionProxy._parse_boolean: None stands for the InvalidActionError
_parse_boolean(value) ==
    IF LowerWord(value) \in {"true", "1", "yes", "on"} THEN Some(TRUE)
    ELSE IF LowerWord(value) \in {"false", "0", "no", "off"} THEN Some(FALSE)
    ELSE None

\* NotteActionProxy.forward_parameter_action
forward_parameter_action(action, node) ==
    IF action.value = None
    THEN Raised("InputActionShouldHaveOneParameterError", "should have one parameter")
    ELSE
      LET value == action.value[1]
          role == get_role_str(node)
          is_editable == node.computed_attributes.is_editable
      IN  IF (action.role = "input" /\ role = "textbox") \/ is_editable
          THEN Resolved(InteractionAction("fill", action.id, Some(value), action.press_enter,
                                          action.selector, Some(inner_text(node))))
          ELSE IF action.role = "input" /\ role = "checkbox"
          THEN (IF _parse_boolean(value) = None
                THEN Raised("InvalidActionError", "Invalid boolean value")
                ELSE Resolved(InteractionAction("check", action.id, _parse_boolean(value),
                                                action.press_enter, action.selector,
                                                Some(node.text))))
          ELSE IF action.role = "input" /\ role = "combobox"
          THEN Resolved(InteractionAction("select_dropdown_option", action.id, Some(value),
                                          action.press_enter, action.selector, Some(node.text)))
          ELSE IF action.role = "input"
          THEN Resolved(InteractionAction("fill", action.id, Some(value), action.press_enter,
                                          action.selector, Some(inner_text(node))))
          ELSE Raised("InvalidActionError", "unknown action type")

\* NotteActionProxy.forward that clicks on an option as on a button
ProxyForwardOptionClicks(action, node) ==
    IF action.role \in {"button", "link", "image", "misc", "option"}
    THEN Resolved(InteractionAction("click", action.id, None, action.press_enter,
                                    node.computed_attributes.selectors, Some(node.text)))
    ELSE IF action.role = "input" THEN forward_parameter_action(action, node)
    ELSE Raised("InvalidActionError", "unknown action role")

\* NotteActionProxy.forward
NotteActionProxy_forward(action, node) ==
    IF action.role \in {"button", "link", "image", "misc"}
    THEN Resolved(InteractionAction("click", action.id, None, action.press_enter,
                                    node.computed_attributes.selectors, Some(node.text)))
    ELSE IF action.role = "option"
    THEN Resolved(InteractionAction("select_dropdown_option", action.id, Some(node.id),
                                    action.press_enter, node.computed_attributes.selectors,
                                    Some(node.text)))
    ELSE IF action.role = "input" THEN forward_parameter_action(action, node)
    ELSE Raised("InvalidActionError", "unknown action role")

\* the second half of NodeResolutionPipe.forward: the selector map of the
\* snapshot, the selectors and the text label of the node of the action
ResolveSelector(action, dom_node) ==
    LET inodes == interaction_nodes(dom_node)
        hits == {k \in 1..Len(inodes.nodes) : inodes.nodes[k].id = action.id}
    IN  IF action.kind # "interaction"
        THEN Raised("InvalidActionError", "action is not an interaction action")
        ELSE IF inodes.status # "ok" THEN Raised(inodes.status, "")
        ELSE IF hits = {} THEN Raised("InvalidActionError", "not found in page context")
        ELSE
          LET node == inodes.nodes[CHOOSE k \in hits : \A j \in hits : j <= k]
              chain == <<node>> \o Tail(ChainTo(dom_node, action.id))
              sel == resolve_selectors(chain)
          IN  IF sel.status # "ok" THEN Raised(sel.status, "")
              ELSE Resolved([action EXCEPT !.selector = sel.selectors,
                                           !.text_label = Some(node.text)])

\* the action object handed to NodeResolutionPipe.forward as it is after the
\* call: a step is replaced by the new object of the proxy, an interaction
\* action is itself assigned the selector and the text label
ArgumentAfter(action, snapshot) ==
    IF action.kind = "interaction" /\ snapshot # None
          /\ ResolveSelector(action, snapshot[1]).status = "ok"
    THEN ResolveSelector(action, snapshot[1]).action[1]
    ELSE action

\* NodeResolutionPipe.forward that resolves a step without looking its id up
ForwardWithoutLookup(action, snapshot) ==
    IF action.kind = "browser" THEN Resolved(action)
    ELSE IF action.kind = "step" /\ action.role \in {"button", "link", "image", "misc"}
    THEN Resolved(InteractionAction("click", action.id, None, action.press_enter, None, None))
    ELSE Raised("InvalidActionError", "unknown action role")

\* NodeResolutionPipe.forward; snapshot is None or the tree of the snapshot
NodeResolutionPipe_forward(action, snapshot) ==
    IF action.kind = "browser" THEN Resolved(action)
    ELSE IF snapshot = None
    THEN Raised("InvalidActionError", "snapshot is required")
    ELSE IF action.kind = "step"
    THEN LET found == find(snapshot[1], action.id)
         IN  IF found.status # "ok" THEN Raised(found.status, "")
             ELSE IF found.node = None
             THEN Raised("InvalidActionError", "node cannot be None")
             ELSE LET proxied == NotteActionProxy_forward(action, found.node[1])
                  IN  IF proxied.status # "ok" THEN proxied
                      ELSE ResolveSelector(proxied.action[1], snapshot[1])
    ELSE ResolveSelector(action, snapshot[1])

\* ---------------------------------------------------------------------------
\* Page trees handed over by the in-page evaluator (DomTreeDict records)
\* ---------------------------------------------------------------------------

TextRecord(text) ==
    [type |-> "TEXT_NODE", text |-> text, tagName |-> None, attributes |-> <<>>,
     isVisible |-> TRUE, isInteractive |-> FALSE, isTopElement |-> FALSE,
     isEditable |-> FALSE, highlighted |-> FALSE, shadowRoot |-> FALSE]

\* an element record; the evaluator gives a highlight index to the elements
\* that are interactive, visible and on top
ElementRecord(tag, attributes, interactive, visible, editable) ==
    [type |-> "ELEMENT_NODE", text |-> <<>>, tagName |-> Some(tag),
     attributes |-> attributes, isVisible |-> visible, isInteractive |-> interactive,
     isTopElement |-> visible, isEditable |-> editable,
     highlighted |-> interactive /\ visible, shadowRoot |-> FALSE]

\* the node records the page trees of the reduction pipeline are made of
Palette ==
    {TextRecord(<<" ">>),
     TextRecord(<<"a">>),
     ElementRecord("div", <<>>, FALSE, TRUE, FALSE),
     ElementRecord("div", <<>>, TRUE, TRUE, FALSE),
     ElementRecord("button", <<>>, TRUE, TRUE, FALSE),
     ElementRecord("li", <<>>, FALSE, TRUE, FALSE),
     ElementRecord("img", <<>>, FALSE, TRUE, FALSE),
     ElementRecord("div", << <<(<<"role">>), <<"foo">> >> >>, FALSE, TRUE, FALSE),
     ElementRecord("a", << <<(<<"aria", "label">>), <<"b">> >> >>, TRUE, TRUE, FALSE),
     ElementRecord("a", <<>>, TRUE, FALSE, FALSE)}

RECURSIVE IsAncestorOrSelf(_, _, _)
IsAncestorOrSelf(par, a, j) ==
    j # 0 /\ (j = a \/ IsAncestorOrSelf(par, a, par[j]))

\* parent vectors of the ordered trees with n nodes numbered in document order
ParentVectors(n) ==
    {par \in [1..n -> 0..(n - 1)] :
        /\ par[1] = 0
        /\ \A i \in 2..n : par[i] # 0 /\ IsAncestorOrSelf(par, par[i], i - 1)}

ChildrenOf(par, n, i) ==
    SelectSeq([j \in 1..n |-> j], LAMBDA j : par[j] = i)

\* the xpath the evaluator reports: one step per ancestor, indexed among the
\* siblings of the same tag when there are several
RECURSIVE XPathOf(_, _, _, _)
XPathOf(par, tp, n, i) ==
    LET same == {j \in 1..n : par[j] = par[i] /\ tp[j].tagName = tp[i].tagName}
        step == [tag |-> tp[i].tagName[1],
                 idx |-> IF Cardinality(same) > 1
                         THEN Some(Cardinality({j \in same : j <= i}))
                         ELSE None]
    IN  (IF par[i] = 0 THEN <<>> ELSE XPathOf(par, tp, n, par[i])) \o <<step>>

RawRecord(par, tp, n, i) ==
    [type |-> tp[i].type, text |-> tp[i].text, tagName |-> tp[i].tagName,
     xpath |-> IF tp[i].type = "TEXT_NODE" THEN None ELSE Some(XPathOf(par, tp, n, i)),
     attributes |-> tp[i].attributes, isVisible |-> tp[i].isVisible,
     isInteractive |-> tp[i].isInteractive, isTopElement |-> tp[i].isTopElement,
     isEditable |-> tp[i].isEditable,
     highlightIndex |-> IF tp[i].highlighted
                        THEN Some(Cardinality({j \in 1..(i - 1) : tp[j].highlighted}))
                        ELSE None,
     shadowRoot |-> tp[i].shadowRoot,
     children |-> ChildrenOf(par, n, i)]

\* rw is a page tree with at most max records drawn from the set pal, text
\* records being leaves
IsRawTree(rw, pal, max) ==
    \E n \in 1..max : \E par \in ParentVectors(n) : \E tp \in [1..n -> pal] :
        /\ \A i \in 2..n : tp[par[i]].type # "TEXT_NODE"
        /\ rw = [i \in 1..n |-> RawRecord(par, tp, n, i)]

\* ---------------------------------------------------------------------------
\* The reduction pipeline: build one snapshot tree, then prune / fold it
\* ---------------------------------------------------------------------------

Init ==
    /\ IsRawTree(raw, Palette, MaxNodes)
    /\ tree = None
    /\ out = None
    /\ out2 = None
    /\ inp = None
    /\ pc = "raw"

\* ParseDomTreePipe.forward on the evaluated page tree
Build ==
    /\ pc = "raw"
    /\ LET r == ParseDomTreePipe_forward(raw)
       IN  /\ tree' = r.tree
           /\ pc' = IF r.status = "ok" THEN "built" ELSE r.status
    /\ UNCHANGED <<raw, out, out2, inp>>

\* node.subtree_filter(prune_empty_texts), the first pass of prune_dom_tree
PruneEmptyTexts ==
    /\ pc = "built"
    /\ out' = subtree_filter(tree[1], [kind |-> "prune_empty_texts"])
    /\ pc' = "pruned"
    /\ UNCHANGED <<raw, tree, out2, inp>>

\* fold_single_childs on the snapshot tree
Fold ==
    /\ pc = "built"
    /\ out' = Some(fold_single_childs(tree[1]))
    /\ pc' = "folded"
    /\ UNCHANGED <<raw, tree, out2, inp>>

\* fold_single_childs on its own result
FoldAgain ==
    /\ pc = "folded"
    /\ out2' = Some(fold_single_childs(out[1]))
    /\ pc' = "refolded"
    /\ UNCHANGED <<raw, tree, out, inp>>

\* prune_dom_tree on the snapshot tree
PruneDomTree ==
    /\ pc = "built"
    /\ out' = Some(prune_dom_tree(tree[1]))
    /\ pc' = "reduced"
    /\ UNCHANGED <<raw, tree, out2, inp>>

Next == Build \/ PruneEmptyTexts \/ Fold \/ FoldAgain \/ PruneDomTree

Spec == Init /\ [][Next]_vars

\* ---------------------------------------------------------------------------
\* Properties of the reduction pipeline
\* ---------------------------------------------------------------------------

\* the non-null ids found in a tree, in document order
Ids(node) ==
    LET all == flatten(node)
        withId == SelectSeq(all, LAMBDA n : n.id # None)
    IN  [k \in 1..Len(withId) |-> withId[k].id]

\* the same for an optional tree (no tree, no ids)
IdsOpt(t) == IF t = None THEN <<>> ELSE Ids(t[1])

NodeCount(t) == IF t = None THEN 0 ELSE Len(flatten(t[1]))

Occurrences(seq, x) == Cardinality({k \in 1..Len(seq) : seq[k] = x})

\* the two sequences hold the same elements the same number of times
SameCollection(s1, s2) ==
    \A x \in {s1[k] : k \in 1..Len(s1)} \cup {s2[k] : k \in 1..Len(s2)} :
        Occurrences(s1, x) = Occurrences(s2, x)

NoRepeat(seq) == \A j, k \in 1..Len(seq) : seq[j] = seq[k] => j = k

\* C1: no addressable node is lost by reduction: the collection of non-null ids
\* of the empty-text prune pass, of fold_single_childs(T) and of
\* prune_dom_tree(T) is the collection of non-null ids of the built tree T,
\* nothing dropped and nothing duplicated.
C1_NoAddressableNodeLost ==
    pc \in {"pruned", "folded", "reduced"} => SameCollection(IdsOpt(out), Ids(tree[1]))

\* C1 witness: a reduction that removed nodes from a tree carrying two ids
C1_Witness ==
    /\ pc = "reduced"
    /\ NodeCount(out) < NodeCount(tree)
    /\ Len(Ids(tree[1])) >= 2

\* C2: ids are unique within one snapshot: no two nodes of the built tree, nor
\* of a tree pruned and/or folded from it, carry the same non-null id.
C2_IdsUnique ==
    /\ pc # "raw" => NoRepeat(IdsOpt(tree))
    /\ pc \in {"pruned", "folded", "reduced", "refolded"} => NoRepeat(IdsOpt(out))
    /\ pc = "refolded" => NoRepeat(IdsOpt(out2))

\* C2 witness: a folded tree with two ids of the same prefix
C2_Witness ==
    /\ pc = "folded"
    /\ \E j, k \in 1..Len(Ids(out[1])) :
          j # k /\ Ids(out[1])[j][1] = Ids(out[1])[k][1]

\* every id-bearing node of the tree has a role of the enum whose prefix under
\* short_id is the letter of its id
IdTyped(t) ==
    \A k \in 1..Len(flatten(t)) :
        LET n == flatten(t)[k]
        IN  n.id # None => n.role.enum /\ short_id(n.role.value, TRUE) = Some(n.id[1])

\* C3: id typing holds for all trees: after id assignment and after any
\* prune/fold, the letter of each non-null id is the prefix the role-to-prefix
\* table gives for the role its node has in that tree.
C3_IdTyping ==
    /\ pc # "raw" /\ tree # None => IdTyped(tree[1])
    /\ pc \in {"pruned", "folded", "reduced"} /\ out # None => IdTyped(out[1])

\* C4: fold is idempotent: fold_single_childs(fold_single_childs(T)) equals
\* fold_single_childs(T) in every field of every node.
C4_FoldIdempotent ==
    pc = "refolded" => out2 = out

\* C4 witness: a second fold of a tree the first fold changed and left with a
\* single-child node
C4_Witness ==
    /\ pc = "refolded"
    /\ out # tree
    /\ Len(out[1].children) = 1

\* every node of type INTERACTION has an id and no children
InteractionNodesAreLeavesWithId(t) ==
    \A k \in 1..Len(flatten(t)) :
        LET n == flatten(t)[k]
        IN  n.type = "interaction" => n.id # None /\ n.children = <<>>

\* C13: in every tree the pipeline produces (built with ids assigned, pruned,
\* folded), every node of kind Interaction has a non-null id and an empty
\* children list.
C13_InteractionNodeInvariant ==
    /\ pc # "raw" /\ tree # None => InteractionNodesAreLeavesWithId(tree[1])
    /\ pc \in {"pruned", "folded", "reduced"} /\ out # None
          => InteractionNodesAreLeavesWithId(out[1])

PruneWouldEmpty ==
    subtree_filter(tree[1], [kind |-> "prune_empty_texts"]) = None

\* C15: prune_dom_tree always returns a tree; when the prune pass would drop
\* every node, root included, the result is derived from the pre-prune tree
\* (its fold) and holds all of its ids.
C15_PruneNeverEmpties ==
    pc = "reduced" =>
        /\ out # None
        /\ PruneWouldEmpty =>
              /\ out = Some(fold_single_childs(tree[1]))
              /\ SameCollection(IdsOpt(out), Ids(tree[1]))

\* C15 witness: a reduction of a tree of several nodes that the prune pass
\* would have emptied
C15_Witness ==
    /\ pc = "reduced"
    /\ PruneWouldEmpty
    /\ NodeCount(tree) = 3

\* the tree is a chain: every node has at most one child
IsChain(t) ==
    \A k \in 1..Len(flatten(t)) : Len(flatten(t)[k].children) <= 1

\* the page tree has exactly one record with a highlight index
OneHighlighted ==
    Cardinality({i \in DOMAIN raw : raw[i].highlightIndex # None}) = 1

\* the node of the built tree that carries the single id
IdBearer ==
    LET n == flatten(tree[1])
    IN  n[CHOOSE k \in 1..Len(n) : n[k].id # None]

\* C16: for a page tree that is a single-child chain in which exactly one node
\* is interactive with a highlight index (and so gets an id), build and reduce
\* give exactly one node: it has the id of that node, no children and the css
\* selector computed for that element.
C16_ChainCollapses ==
    pc = "reduced" /\ IsChain(tree[1]) /\ OneHighlighted /\ Len(Ids(tree[1])) = 1 =>
        /\ out[1].children = <<>>
        /\ out[1].id = IdBearer.id
        /\ out[1].computed_attributes.selectors # None
        /\ out[1].computed_attributes.selectors[1].css_selector
              = IdBearer.computed_attributes.selectors[1].css_selector

\* C16 witness: div > button > text reduced to the button B1 alone
C16_Witness ==
    /\ pc = "reduced"
    /\ IsChain(tree[1]) /\ OneHighlighted /\ NodeCount(tree) = 3
    /\ tree[1].id = None /\ tree[1].children[1].id = <<"B", 1>>
    /\ tree[1].children[1].children[1].type = "text"
    /\ out[1].id = <<"B", 1>> /\ out[1].children = <<>>

\* ---------------------------------------------------------------------------
\* The snapshot diff: build one snapshot tree, then subgraph_without
\* ---------------------------------------------------------------------------

MaxNodesDiff == 3

\* an id no node of the bounded trees gets: an action of an earlier snapshot
StaleId == <<"B", 9>>

PaletteDiff ==
    {TextRecord(<<" ">>),
     TextRecord(<<"a">>),
     ElementRecord("div", <<>>, FALSE, TRUE, FALSE),
     ElementRecord("div", <<>>, TRUE, TRUE, FALSE),
     ElementRecord("button", <<>>, TRUE, TRUE, FALSE),
     ElementRecord("a", <<>>, TRUE, FALSE, FALSE)}

InitDiff ==
    /\ IsRawTree(raw, PaletteDiff, MaxNodesDiff)
    /\ tree = None
    /\ out = None
    /\ out2 = None
    /\ inp = None
    /\ pc = "raw"

\* snapshot.subgraph_without(actions) with the ids of earlier actions
SubgraphWithout ==
    /\ pc = "built"
    /\ \E actions \in SUBSET ({Ids(tree[1])[k] : k \in 1..Len(Ids(tree[1]))} \cup {StaleId}) :
          /\ inp' = [actions |-> actions, roles |-> None]
          /\ out' = subgraph_without(tree[1], actions, None)
    /\ pc' = "diffed"
    /\ UNCHANGED <<raw, tree, out2>>

\* snapshot.subgraph_without([], roles): the role filter
SubgraphWithoutRoles ==
    /\ pc = "built"
    /\ \E roles \in {{"button"}, {"text", "link"}} :
          /\ inp' = [actions |-> {}, roles |-> Some(roles)]
          /\ out' = subgraph_without(tree[1], {}, Some(roles))
    /\ pc' = "filtered"
    /\ UNCHANGED <<raw, tree, out2>>

NextDiff == Build \/ SubgraphWithout \/ SubgraphWithoutRoles

SpecDiff == InitDiff /\ [][NextDiff]_vars

\* the ids of the nodes of a tree that pass is_interaction
InteractiveIds(t) ==
    {flatten(t)[k].id : k \in {j \in 1..Len(flatten(t)) : is_interaction(flatten(t)[j])}}

IdSet(t) == {Ids(t)[k] : k \in 1..Len(Ids(t))}

\* C5: the diff, called with no role filter, returns no snapshot exactly when
\* every interactive id of the tree is among the known ids (and so also when the
\* tree has no interactive id at all).
C5_DiffNothingNew ==
    pc = "diffed" =>
        /\ out.status = "ok"
        /\ (out.graph = None <=> InteractiveIds(tree[1]) \subseteq inp.actions)

\* C5 witness: a tree with two interactive ids, all known, diffed to nothing
C5_Witness ==
    /\ pc = "diffed"
    /\ out.graph = None
    /\ Cardinality(InteractiveIds(tree[1])) = 2
    /\ InteractiveIds(tree[1]) \subseteq inp.actions

MaxNodesResolve == 2

InputRecord(type, editable) ==
    ElementRecord("input", << <<(<<"type">>), <<type>> >> >>, TRUE, TRUE, editable)

PaletteResolve ==
    {TextRecord(<<"a">>),
     ElementRecord("div", <<>>, FALSE, TRUE, FALSE),
     ElementRecord("button", <<>>, TRUE, TRUE, FALSE),
     [ElementRecord("div", <<>>, FALSE, TRUE, FALSE) EXCEPT !.shadowRoot = TRUE],
     ElementRecord("select", <<>>, TRUE, TRUE, FALSE),
     InputRecord("text", TRUE),
     InputRecord("radio", FALSE),
     InputRecord("checkbox", FALSE),
     InputRecord("CHECKBOX", TRUE)}

StepRoles == {"button", "link", "image", "misc", "option", "input", "text"}

StepValues ==
    {"true", "1", "yes", "on", "false", "0", "no", "off",
     "TRUE", "Yes", "ON", "False", "NO", "Off", "maybe", ""}

StepAction(id, role, value) ==
    [kind |-> "step", id |-> id, role |-> role, value |-> value,
     press_enter |-> None, selector |-> None, text_label |-> None]

\* the actions handed to the resolver: page-level ones, steps addressed to an
\* id of the tree or to a stale one, already concrete ones, and others
ActionsFor(t) ==
    LET ids == IdSet(t) \cup {StaleId}
    IN  {[kind |-> "browser", type |-> ty] : ty \in {"goto", "scrape"}}
        \cup {[kind |-> "base", type |-> "completion"]}
        \cup {InteractionAction("click", id, None, None, None, None) : id \in ids}
        \cup {StepAction(id, role, None) : id \in ids, role \in StepRoles}
        \cup {StepAction(id, role, Some("maybe")) : id \in ids, role \in StepRoles}
        \cup {StepAction(id, "input", Some(v)) : id \in ids, v \in StepValues}

InitResolve ==
    /\ IsRawTree(raw, PaletteResolve, MaxNodesResolve)
    /\ tree = None
    /\ out = None
    /\ out2 = None
    /\ inp = None
    /\ pc = "raw"

\* NodeResolutionPipe.forward(action, snapshot)
Resolve ==
    /\ pc = "built"
    /\ \E action \in ActionsFor(tree[1]) :
          /\ inp' = [action |-> action, snapshot |-> tree]
          /\ out' = NodeResolutionPipe_forward(action, tree)
          /\ out2' = Some(ArgumentAfter(action, tree))
    /\ pc' = "resolved"
    /\ UNCHANGED <<raw, tree>>

\* NodeResolutionPipe.forward(action, None)
ResolveWithoutSnapshot ==
    /\ pc = "built"
    /\ \E action \in ActionsFor(tree[1]) :
          /\ inp' = [action |-> action, snapshot |-> None]
          /\ out' = NodeResolutionPipe_forward(action, None)
          /\ out2' = Some(ArgumentAfter(action, None))
    /\ pc' = "resolved"
    /\ UNCHANGED <<raw, tree>>

NextResolve == Build \/ Resolve \/ ResolveWithoutSnapshot

SpecResolve == InitResolve /\ [][NextResolve]_vars

InvalidActionErrors == {"InvalidActionError", "InputActionShouldHaveOneParameterError"}

\* C8: a step whose id is not in the interaction-node index of the snapshot,
\* or that comes with no snapshot, never resolves: the resolver raises
\* InvalidActionError or its subclass, whatever the role and the value.
C8_UnknownIdNeverResolves ==
    pc = "resolved" /\ inp.action.kind = "step"
      /\ (inp.snapshot = None \/ inp.action.id \notin InteractiveIds(tree[1]))
    => out.status \in InvalidActionErrors /\ out.action = None

\* C8 witness: a click step on a stale id against a snapshot that has ids
C8_Witness ==
    /\ pc = "resolved"
    /\ inp.action.kind = "step" /\ inp.action.role = "button"
    /\ inp.snapshot # None /\ InteractiveIds(tree[1]) # {}
    /\ inp.action.id = StaleId
    /\ out.status = "InvalidActionError"

\* a step resolved against a snapshot whose interaction index holds its id
StepOnIndexedNode ==
    /\ pc = "resolved"
    /\ inp.action.kind = "step"
    /\ inp.snapshot # None
    /\ inp.action.id \in InteractiveIds(tree[1])

\* C9: for a step on an indexed id, role button, link, image or misc resolves
\* to Click on the same id, role option to SelectDropdownOption whose value is
\* the id of the node, any role other than these and input raises the unknown
\* action role InvalidActionError; a Browser action is returned unchanged, with
\* or without a snapshot.
C9_RoleToAction ==
    /\ StepOnIndexedNode /\ inp.action.role \in {"button", "link", "image", "misc"}
         => /\ out.status = "ok"
            /\ out.action[1].type = "click" /\ out.action[1].id = inp.action.id
    /\ StepOnIndexedNode /\ inp.action.role = "option"
         => /\ out.status = "ok"
            /\ out.action[1].type = "select_dropdown_option"
            /\ out.action[1].id = inp.action.id
            /\ out.action[1].value = Some(inp.action.id)
    /\ StepOnIndexedNode
         /\ inp.action.role \notin {"button", "link", "image", "misc", "option", "input"}
         => out.status = "InvalidActionError" /\ out.reason = "unknown action role"
    /\ pc = "resolved" /\ inp.action.kind = "browser"
         => out.status = "ok" /\ out.action = Some(inp.action)

\* C9 witness: an option step resolved to a SelectDropdownOption
C9_Witness ==
    /\ StepOnIndexedNode
    /\ inp.action.role = "option"
    /\ out.status = "ok"
    /\ out.action[1].type = "select_dropdown_option"

\* the node of the snapshot tree the step is addressed to
TargetNode == ChainTo(tree[1], inp.action.id)[1]

TrueWords == {"true", "1", "yes", "on", "TRUE", "Yes", "ON"}

FalseWords == {"false", "0", "no", "off", "False", "NO", "Off"}

\* the outcome of the step is the Check the value spells, or the invalid
\* boolean error
ChecksByValue ==
    LET v == inp.action.value[1]
        checks(b) == /\ out.status = "ok"
                     /\ out.action[1].type = "check"
                     /\ out.action[1].id = inp.action.id
                     /\ out.action[1].value = Some(b)
    IN  /\ v \in TrueWords => checks(TRUE)
        /\ v \in FalseWords => checks(FALSE)
        /\ v \notin TrueWords \cup FalseWords
             => out.status = "InvalidActionError" /\ out.reason = "Invalid boolean value"

\* a step with role input and a value, addressed to a node of role checkbox
InputStepOnCheckbox ==
    /\ StepOnIndexedNode
    /\ inp.action.role = "input"
    /\ inp.action.value # None
    /\ get_role_str(TargetNode) = "checkbox"

\* C10 as stated: for every node whose role is checkbox, whatever its other
\* flags, an input step with a value resolves to Check(true) / Check(false) by
\* the value read case-insensitively, or raises the invalid boolean error.
C10_CheckboxAnyFlags ==
    InputStepOnCheckbox => ChecksByValue

\* C10 amended: the same for every checkbox node that is not flagged editable;
\* on an editable checkbox the step resolves to Fill with the value as given.
C10_CheckboxNotEditable ==
    InputStepOnCheckbox =>
        IF TargetNode.computed_attributes.is_editable
        THEN /\ out.status = "ok"
             /\ out.action[1].type = "fill"
             /\ out.action[1].value = inp.action.value
        ELSE ChecksByValue

\* C10 witness: the value TRUE checked on a checkbox that is not editable
C10_Witness ==
    /\ InputStepOnCheckbox
    /\ ~TargetNode.computed_attributes.is_editable
    /\ inp.action.value = Some("TRUE")
    /\ out.status = "ok"
    /\ out.action[1].value = Some(TRUE)

\* C11: the resolver is a pure function: after resolve(action, tree), on
\* success and on failure, the action object passed in is as it was, and the
\* resolved selector and text label are on the returned action only.
C11_ResolverIsPure ==
    pc = "resolved" => out2 = Some(inp.action)

\* ---------------------------------------------------------------------------
\* locate_element: one step per await, the page answers each count
\* ---------------------------------------------------------------------------

MaxMatches == 2

\* the selectors handed to locate_element
LocateInputs ==
    {NodeSelectors(css, xpath, None, in_iframe, iframe_paths, FALSE) :
        css \in {"c1", "c2"}, xpath \in {"x1", "x2"}, in_iframe \in BOOLEAN,
        iframe_paths \in {<<>>, <<"f1">>, <<"f1", "f2">>}}

\* the selector strings of the for loop, in the order they are tried
Strategies(selectors) ==
    << <<"css=", selectors.css_selector>>, <<"xpath=", selectors.xpath_selector>> >>

InitLocate ==
    /\ raw = <<>>
    /\ tree = None
    /\ inp \in LocateInputs
    /\ out = [frame |-> <<>>, counts |-> <<>>, warnings |-> 0, locator |-> None]
    /\ out2 = None
    /\ pc = "start"

\* locale_element_in_iframes: ValueError, or the chain of frame locators
locale_element_in_iframes(selectors) ==
    IF ~selectors.in_iframe \/ Len(selectors.iframe_parent_css_selectors) = 0
    THEN [status |-> "ValueError", frame |-> <<>>]
    ELSE [status |-> "ok", frame |-> selectors.iframe_parent_css_selectors]

\* locate_element up to its first await of a count
EnterFrame ==
    /\ pc = "start"
    /\ LET r == IF inp.in_iframe THEN locale_element_in_iframes(inp)
                ELSE [status |-> "ok", frame |-> <<>>]
       IN  /\ out' = [out EXCEPT !.frame = r.frame]
           /\ pc' = IF r.status = "ok" THEN "count" ELSE r.status
    /\ UNCHANGED <<raw, tree, out2, inp>>

\* one turn of the for loop: the count the page answers for the selector
TrySelector ==
    /\ pc = "count"
    /\ \E count \in 0..MaxMatches :
          LET k == Len(out.counts) + 1
              counts == Append(out.counts, count)
          IN  IF count > 1
              THEN /\ out' = [out EXCEPT !.counts = counts, !.warnings = @ + 1]
                   /\ pc' = IF k = Len(Strategies(inp)) THEN "ValueError" ELSE "count"
              ELSE IF count = 1
              THEN /\ out' = [out EXCEPT !.counts = counts,
                                         !.locator = Some([frame |-> out.frame,
                                                           selector |-> Strategies(inp)[k]])]
                   /\ pc' = "located"
              ELSE /\ out' = [out EXCEPT !.counts = counts]
                   /\ pc' = IF k = Len(Strategies(inp)) THEN "ValueError" ELSE "count"
    /\ UNCHANGED <<raw, tree, out2, inp>>

NextLocate == EnterFrame \/ TrySelector

SpecLocate == InitLocate /\ [][NextLocate]_vars

\* C7: locate_element resolves with the first strategy whose match count is
\* not zero: it moves on to the next strategy only after a count of zero, a
\* count above one resolves too (with a warning), and it fails only when every
\* strategy matched zero elements.
C7_FirstNonZeroWins ==
    /\ pc = "count" => \A k \in 1..Len(out.counts) : out.counts[k] = 0
    /\ pc = "located" =>
          /\ \A k \in 1..(Len(out.counts) - 1) : out.counts[k] = 0
          /\ out.locator[1].selector = Strategies(inp)[Len(out.counts)]
    /\ pc = "ValueError" /\ out.counts # <<>> =>
          \A k \in 1..Len(out.counts) : out.counts[k] = 0

\* ---------------------------------------------------------------------------
\* Selectors through the shadow DOM: build one snapshot tree, then resolve the
\* selectors of one interaction node
\* ---------------------------------------------------------------------------

MaxNodesShadow == 3

\* an element that hosts a shadow root
HostRecord(tag, interactive) ==
    [ElementRecord(tag, <<>>, interactive, TRUE, FALSE) EXCEPT !.shadowRoot = TRUE]

PaletteShadow ==
    {TextRecord(<<"a">>),
     ElementRecord("div", <<>>, FALSE, TRUE, FALSE),
     ElementRecord("button", <<>>, TRUE, TRUE, FALSE),
     HostRecord("div", FALSE),
     HostRecord("button", TRUE)}

InitShadow ==
    /\ IsRawTree(raw, PaletteShadow, MaxNodesShadow)
    /\ tree = None
    /\ out = None
    /\ out2 = None
    /\ inp = None
    /\ pc = "raw"

\* NodeResolutionPipe.resolve_selectors on an interaction node of the snapshot
ResolveSelectors ==
    /\ pc = "built"
    /\ \E id \in InteractiveIds(tree[1]) :
          LET inodes == interaction_nodes(tree[1]).nodes
              node == inodes[CHOOSE k \in 1..Len(inodes) : inodes[k].id = id]
          IN  /\ inp' = id
              /\ out' = resolve_selectors(<<node>> \o Tail(ChainTo(tree[1], id)))
    /\ pc' = "selected"
    /\ UNCHANGED <<raw, tree, out2>>

NextShadow == Build \/ ResolveSelectors

SpecShadow == InitShadow /\ [][NextShadow]_vars

RECURSIVE Reverse(_)
Reverse(s) == IF s = <<>> THEN <<>> ELSE Reverse(Tail(s)) \o <<s[1]>>

\* the pieces of a selector text between the chaining marks
RECURSIVE SplitChain(_, _)
SplitChain(text, acc) ==
    IF text = <<>> THEN <<acc>>
    ELSE IF text[1] = Tok(" >> ") THEN <<acc>> \o SplitChain(Tail(text), <<>>)
    ELSE SplitChain(Tail(text), Append(acc, text[1]))

\* a fragment without its engine prefix
WithoutEngine(fragment) ==
    IF fragment # <<>> /\ fragment[1] = Tok("xpath=") THEN Tail(fragment) ELSE fragment

\* text with the prefix removed when it starts with it
StripPrefix(text, prefix) ==
    IF Len(text) >= Len(prefix) /\ SubSeq(text, 1, Len(prefix)) = prefix
    THEN SubSeq(text, Len(prefix) + 1, Len(text))
    ELSE text

\* the xpaths x1 .. xk of the shadow hosts above the node, outermost first,
\* followed by the xpath x of the node
LevelXPaths(chain) ==
    LET above == SelectSeq(Tail(chain), LAMBDA n : n.computed_attributes.shadow_root)
        levels == Reverse(<<chain[1]>> \o above)
    IN  [k \in 1..Len(levels) |->
            XPathText(levels[k].computed_attributes.selectors[1].xpath_selector)]

\* the chain the levels spell: each fragment with the xpath of its enclosing
\* host stripped
ExpectedChain(levels) ==
    [k \in 1..Len(levels) |->
        IF k = 1 THEN levels[1] ELSE StripPrefix(levels[k], levels[k - 1])]

\* C12: for a node under k shadow hosts, none of them the root, the resolved
\* xpath selector is the chain of exactly k+1 fragments x1, .., xk, x in
\* root-to-leaf order, each with the xpath of its enclosing host stripped.
C12_ShadowChain ==
    pc = "selected" =>
        LET chain == ChainTo(tree[1], inp)
            k == Len(LevelXPaths(chain)) - 1
            resolved == out.selectors[1].xpath_selector
            fragments == SplitChain(resolved, <<>>)
        IN  ~chain[Len(chain)].computed_attributes.shadow_root /\ k >= 1 =>
              /\ out.status = "ok"
              /\ Len(fragments) = k + 1
              /\ [j \in 1..Len(fragments) |-> WithoutEngine(fragments[j])]
                    = ExpectedChain(LevelXPaths(chain))

\* the fold of a parent with its single, already folded, child follows the
\* tie-break on ids
TieBreak(parent, result) ==
    LET child == fold_single_childs(parent.children[1])
    IN  /\ (parent.id # None /\ child.id = None) => result.id = parent.id
        /\ (parent.id = None /\ child.id # None) => result.id = child.id
        /\ (parent.id # None /\ child.id # None) => result = parent

\* C19: when a parent is folded with its single (already folded) child, the
\* merged node carries the id that exactly one of the two carries; when both
\* carry an id no merge is made and the parent is returned as it was, still
\* holding its child.
C19_FoldIdTieBreak ==
    pc = "folded" =>
        /\ Len(tree[1].children) = 1 => TieBreak(tree[1], out[1])
        /\ \A k \in 1..Len(flatten(tree[1])) :
              LET node == flatten(tree[1])[k]
              IN  Len(node.children) = 1 => TieBreak(node, fold_single_childs(node))

\* C19 witness: a root without id over a node with id over another node with
\* id: the inner pair is left unmerged and the root takes the id of its child
C19_Witness ==
    /\ pc = "folded"
    /\ tree[1].id = None
    /\ Len(tree[1].children) = 1
    /\ tree[1].children[1].id # None
    /\ Len(tree[1].children[1].children) = 1
    /\ tree[1].children[1].children[1].id # None
    /\ out[1].id = tree[1].children[1].id
    /\ out[1].children = tree[1].children[1].children

\* C20: in the tree returned by fold_single_childs every node with exactly
\* one child carries an id and so does that child.
C20_NoSingleChildChainLeft ==
    pc = "folded" =>
        \A k \in 1..Len(flatten(out[1])) :
            LET node == flatten(out[1])[k]
            IN  Len(node.children) = 1 =>
                    node.id # None /\ node.children[1].id # None

\* the ids of the sequence that carry the prefix p, in the order of the sequence
WithPrefix(ids, p) == SelectSeq(ids, LAMBDA id : id[1] = p)

\* C22: within one snapshot, for each prefix P the ids carrying P are exactly
\* P1, P2, .., Pk with no gap and no repeat, increasing along the depth-first
\* pre-order (document order, children left to right) of the nodes that
\* receive them.
C22_SequentialNumbering ==
    pc = "built" =>
        \A p \in IdPrefixes :
            \A k \in 1..Len(WithPrefix(Ids(tree[1]), p)) :
                WithPrefix(Ids(tree[1]), p)[k] = <<p, k>>

\* C22 witness: two sibling nodes receive ids of the same prefix
C22_Witness ==
    /\ pc = "built"
    /\ Len(tree[1].children) = 2
    /\ tree[1].children[1].id # None
    /\ tree[1].children[2].id # None
    /\ tree[1].children[1].id[1] = tree[1].children[2].id[1]

\* the trees of the state: the built one and those reduced from it
StateTrees ==
    (IF pc = "raw" THEN {} ELSE {tree[1]})
    \cup (IF pc \in {"pruned", "folded", "reduced", "refolded"} /\ out # None
          THEN {out[1]} ELSE {})
    \cup (IF pc = "refolded" THEN {out2[1]} ELSE {})

\* the trees of the state that come out of a reduction
ReducedTrees == StateTrees \ (IF pc = "raw" THEN {} ELSE {tree[1]})

NodesOf(t) == LET all == flatten(t) IN {all[k] : k \in 1..Len(all)}

\* C24: every id-bearing node of a built tree and of any tree reduced from it
\* has precomputed selectors; resolve_selectors raises
\* FailedNodeResolutionError only for nodes without precomputed selectors, and
\* never for a node of the interaction index of such a tree.
C24_SelectorLookupCannotMiss ==
    \A t \in StateTrees :
        LET inodes == interaction_nodes(t)
        IN  /\ \A n \in NodesOf(t) :
                  LET chain == <<n>> \o (IF n.id = None THEN <<>> ELSE Tail(ChainTo(t, n.id)))
                  IN  /\ n.id # None => n.computed_attributes.selectors # None
                      /\ resolve_selectors(chain).status = "FailedNodeResolutionError"
                          <=> n.computed_attributes.selectors = None
            /\ inodes.status = "ok" =>
                  \A k \in 1..Len(inodes.nodes) :
                      resolve_selectors(<<inodes.nodes[k]>>
                                        \o Tail(ChainTo(t, inodes.nodes[k].id))).status = "ok"

\* C24 witness: a folded tree whose root took the id of one side while the
\* other side, a text, had no selectors
C24_Witness ==
    /\ pc = "folded"
    /\ NodeCount(out) < NodeCount(tree)
    /\ out[1].id # None
    /\ \E n \in NodesOf(tree[1]) : n.computed_attributes.selectors = None
    /\ interaction_nodes(out[1]).status = "ok"
    /\ Len(interaction_nodes(out[1]).nodes) > 0

\* C28: in any tree returned by fold_single_childs or prune_dom_tree, each
\* id-bearing node has the kind, the attributes and the computed attributes
\* (selectors included) of the node that carried this id before reduction.
C28_SelectorsStayWithId ==
    \A t \in ReducedTrees :
        \A n \in NodesOf(t) :
            n.id # None =>
                \E m \in NodesOf(tree[1]) :
                    /\ m.id = n.id
                    /\ m.type = n.type
                    /\ m.attributes = n.attributes
                    /\ m.computed_attributes = n.computed_attributes

\* C28 witness: a node without id was folded with its child that carries one
C28_Witness ==
    /\ pc = "reduced"
    /\ tree[1].id = None
    /\ Len(tree[1].children) = 1
    /\ tree[1].children[1].id # None
    /\ out[1].id = tree[1].children[1].id

\* ---------------------------------------------------------------------------
\* The tree builder on malformed page trees
\* ---------------------------------------------------------------------------

MaxNodesParse == 3

PaletteParse ==
    {TextRecord(<<"a">>),
     ElementRecord("div", <<>>, FALSE, TRUE, FALSE),
     ElementRecord("span", << <<(<<"id">>), <<"x">> >> >>, FALSE, TRUE, FALSE),
     ElementRecord("button", <<>>, TRUE, TRUE, FALSE)}

MalformKinds == {"intact", "null_tag", "null_tag_xpath", "null_tag_attrs", "null_xpath"}

\* the record as a faulty evaluator may hand it over
Malformed(record, kind) ==
    CASE kind = "null_tag" ->
            [record EXCEPT !.tagName = None, !.xpath = None, !.attributes = <<>>]
      [] kind = "null_tag_xpath" ->
            [record EXCEPT !.tagName = None, !.attributes = <<>>]
      [] kind = "null_tag_attrs" ->
            [record EXCEPT !.tagName = None, !.xpath = None,
                           !.attributes = << <<(<<"id">>), <<"x">> >> >>]
      [] kind = "null_xpath" -> [record EXCEPT !.xpath = None]
      [] OTHER -> record

\* a page tree with one element record malformed, or no page tree at all
InitParse ==
    /\ \/ raw = <<>>
       \/ \E n \in 1..MaxNodesParse :
            \E par \in ParentVectors(n) : \E tp \in [1..n -> PaletteParse] :
              \E i \in 1..n : \E kind \in MalformKinds :
                /\ \A j \in 2..n : tp[par[j]].type # "TEXT_NODE"
                /\ tp[i].type # "TEXT_NODE"
                /\ raw = [[j \in 1..n |-> RawRecord(par, tp, n, j)] EXCEPT
                             ![i] = Malformed(RawRecord(par, tp, n, i), kind)]
    /\ tree = None
    /\ out = None
    /\ out2 = None
    /\ inp = None
    /\ pc = "raw"

NextParse == Build

SpecParse == InitParse /\ [][NextParse]_vars

\* a null-tag record with no attributes, no xpath and no children
Droppable(i) ==
    /\ raw[i].type # "TEXT_NODE"
    /\ raw[i].tagName = None /\ raw[i].xpath = None
    /\ raw[i].attributes = <<>> /\ raw[i].children = <<>>

\* any other null-tag record, or an element record with a null xpath
Fatal(i) ==
    /\ raw[i].type # "TEXT_NODE"
    /\ \/ raw[i].tagName = None /\ ~Droppable(i)
       \/ raw[i].tagName # None /\ raw[i].xpath = None

\* the page tree without its droppable records: the xpath of each element
\* (TEXT for a text record) over the same of its children, in order
RECURSIVE RawShape(_)
RawShape(i) ==
    LET kept == SelectSeq(raw[i].children, LAMBDA c : ~Droppable(c))
    IN  [label |-> IF raw[i].type = "TEXT_NODE" THEN <<"TEXT">> ELSE raw[i].xpath[1],
         kids |-> [k \in 1..Len(kept) |-> RawShape(kept[k])]]

RECURSIVE TreeShape(_)
TreeShape(node) ==
    [label |-> IF node.attributes = None THEN <<"TEXT">>
               ELSE node.computed_attributes.selectors[1].xpath_selector,
     kids |-> [k \in 1..Len(node.children) |-> TreeShape(node.children[k])]]

\* C17: a droppable null-tag record is left out of the children of its parent,
\* its siblings kept in order; any other null-tag record and any element record
\* with a null xpath abort the build with an error; a root that parses to
\* nothing aborts with SnapshotProcessingError.
C17_MalformedInput ==
    pc # "raw" /\ raw # <<>> =>
        IF \E i \in DOMAIN raw : Fatal(i) THEN pc = "ValueError" /\ tree = None
        ELSE IF Droppable(1) THEN pc = "SnapshotProcessingError" /\ tree = None
        ELSE pc = "built" /\ TreeShape(tree[1]) = RawShape(1)

\* C17 witness: a tree built without the droppable first child of its root,
\* the second child kept
C17_Witness ==
    /\ pc = "built"
    /\ Len(raw) = 3 /\ raw[1].children = <<2, 3>>
    /\ Droppable(2)
    /\ Len(tree[1].children) = 1

\* ---------------------------------------------------------------------------
\* The resource URL of a node built from a raw attribute map
\* ---------------------------------------------------------------------------

MaxAttrs == 3

\* the six attributes of the precedence list, in its order, and one more
UrlKeys ==
    << <<"src">>, <<"srcset">>, <<"data", "src">>, <<"data", "srcset">>,
       <<"target">>, <<"href">> >>

MapKeys == UrlKeys \o << <<"alt">> >>

\* the raw attribute map where how[k] tells whether key k is absent, empty or
\* set (to a value no other key has)
RECURSIVE RawMap(_, _)
RawMap(how, k) ==
    IF k > Len(MapKeys) THEN <<>>
    ELSE (CASE how[k] = "absent" -> <<>>
            [] how[k] = "empty" -> << <<MapKeys[k], <<>> >> >>
            [] OTHER -> << <<MapKeys[k], <<"U">> \o MapKeys[k]>> >>)
         \o RawMap(how, k + 1)

InitUrl ==
    /\ \E how \in [1..Len(MapKeys) -> {"absent", "empty", "set"}] :
         /\ Cardinality({k \in 1..Len(MapKeys) : how[k] # "absent"}) <= MaxAttrs
         /\ \E interactive \in BOOLEAN :
              raw = [i \in 1..1 |-> RawRecord(<<0>>,
                        <<ElementRecord("img", RawMap(how, 1), interactive, TRUE, FALSE)>>,
                        1, 1)]
    /\ tree = None
    /\ out = None
    /\ out2 = None
    /\ inp = None
    /\ pc = "raw"

\* get_image_src on the built node: node.attributes.get_resource_url()
GetResourceUrl ==
    /\ pc = "built"
    /\ tree[1].attributes # None
    /\ out' = get_resource_url(tree[1].attributes[1])
    /\ pc' = "url"
    /\ UNCHANGED <<raw, tree, out2, inp>>

NextUrl == Build \/ GetResourceUrl

SpecUrl == InitUrl /\ [][NextUrl]_vars

\* the value of a key of a raw attribute map, None when absent
RawGet(map, key) ==
    LET hits == SelectSeq(map, LAMBDA kv : kv[1] = key)
    IN  IF hits = <<>> THEN None ELSE Some(hits[1][2])

\* the first non-empty value among the keys, None when there is none
RECURSIVE FirstNonEmpty(_, _)
FirstNonEmpty(map, keys) ==
    IF keys = <<>> THEN None
    ELSE IF RawGet(map, keys[1]) # None /\ RawGet(map, keys[1])[1] # <<>>
         THEN RawGet(map, keys[1])
         ELSE FirstNonEmpty(map, Tail(keys))

\* C18: the resource URL of a node built from a raw attribute map is the first
\* non-empty value among src, srcset, data-src, data-srcset, target, href in
\* that order, and none when all six are absent or empty.
C18_ResourceUrlPrecedence ==
    pc = "url" => out = FirstNonEmpty(raw[1].attributes, UrlKeys)

\* ---------------------------------------------------------------------------
\* The role of a folded pair
\* ---------------------------------------------------------------------------

MaxNodesFold == 2

\* one record for each class of role the tie-break tells apart, with and
\* without an id
PaletteFold ==
    {TextRecord(<<"a">>),
     ElementRecord("div", << <<(<<"role">>), <<"none">> >> >>, FALSE, TRUE, FALSE),
     ElementRecord("center", <<>>, FALSE, TRUE, FALSE),
     ElementRecord("div", <<>>, FALSE, TRUE, FALSE),
     ElementRecord("div", <<>>, TRUE, TRUE, FALSE),
     ElementRecord("li", <<>>, FALSE, TRUE, FALSE),
     ElementRecord("li", <<>>, TRUE, TRUE, FALSE),
     ElementRecord("p", <<>>, FALSE, TRUE, FALSE),
     ElementRecord("main", <<>>, FALSE, TRUE, FALSE),
     ElementRecord("ul", <<>>, FALSE, TRUE, FALSE),
     ElementRecord("img", <<>>, FALSE, TRUE, FALSE),
     ElementRecord("button", <<>>, TRUE, TRUE, FALSE),
     ElementRecord("a", <<>>, TRUE, TRUE, FALSE)}

InitFold ==
    /\ IsRawTree(raw, PaletteFold, MaxNodesFold)
    /\ tree = None
    /\ out = None
    /\ out2 = None
    /\ inp = None
    /\ pc = "raw"

NextFold == Build \/ Fold

SpecFold == InitFold /\ [][NextFold]_vars

LowPriorityRoles == {"none", "generic", "group"}

\* the root of the built tree was merged with its single, folded, child
RootMerged ==
    /\ pc = "folded"
    /\ Len(tree[1].children) = 1
    /\ tree[1].id = None \/ fold_single_childs(tree[1].children[1]).id = None

FoldedChild == fold_single_childs(tree[1].children[1])

\* the tie-break as an ordered list of rules, from the identical roles on
OrderedRules(parent, child) ==
    LET node_role == get_role_str(parent)
        child_role == get_role_str(child)
    IN  IF node_role = child_role THEN node_role
        ELSE IF node_role \in LowPriorityRoles /\ child_role \notin LowPriorityRoles
        THEN child_role
        ELSE IF node_role \notin LowPriorityRoles /\ child_role \in LowPriorityRoles
        THEN node_role
        ELSE IF node_role \in {"listitem", "paragraph", "main"} THEN child_role
        ELSE IF child_role \in {"list", "paragraph"} THEN node_role
        ELSE IF child.id # None THEN child_role
        ELSE IF parent.id # None THEN node_role
        ELSE child_role

BothLow(parent, child) ==
    /\ get_role_str(parent) # get_role_str(child)
    /\ get_role_str(parent) \in LowPriorityRoles
    /\ get_role_str(child) \in LowPriorityRoles

\* C21 as stated: the role of the merged node follows the ordered rules.
C21_RoleTieBreakAsStated ==
    RootMerged => get_role_str(out[1]) = OrderedRules(tree[1], FoldedChild)

\* C21: the role of the merged node follows the ordered rules, except that two
\* different low-priority roles (none/generic/group) give the role group.
C21_RoleTieBreak ==
    RootMerged =>
        get_role_str(out[1]) = IF BothLow(tree[1], FoldedChild) THEN "group"
                               ELSE OrderedRules(tree[1], FoldedChild)

\* C21 witness: a parent whose role is none merged with a generic child
C21_Witness ==
    /\ RootMerged
    /\ get_role_str(tree[1]) = "none"
    /\ get_role_str(FoldedChild) = "generic"

\* C30 as stated: the role of a merged node is the role of the parent or the
\* role of the child.
C30_NoInventedRoleAsStated ==
    RootMerged => get_role_str(out[1]) \in {get_role_str(tree[1]), get_role_str(FoldedChild)}

\* C30: the role of a merged node is the role of the parent or the role of the
\* child, or group when the two have different low-priority roles.
C30_NoInventedRole ==
    RootMerged =>
        get_role_str(out[1]) \in
            {get_role_str(tree[1]), get_role_str(FoldedChild)}
            \cup (IF BothLow(tree[1], FoldedChild) THEN {"group"} ELSE {})

\* C30 witness: the merged node has the role group that neither side had
C30_Witness ==
    /\ RootMerged
    /\ get_role_str(out[1]) = "group"
    /\ get_role_str(tree[1]) # "group"
    /\ get_role_str(FoldedChild) # "group"

\* ---------------------------------------------------------------------------
\* Frames: build one snapshot tree holding iframes, then enter the frames of
\* one of its element nodes
\* ---------------------------------------------------------------------------

MaxNodesFrame == 3

PaletteFrame ==
    {TextRecord(<<"a">>),
     ElementRecord("div", <<>>, FALSE, TRUE, FALSE),
     ElementRecord("iframe", <<>>, FALSE, TRUE, FALSE),
     ElementRecord("iframe", <<>>, TRUE, TRUE, FALSE),
     ElementRecord("button", <<>>, TRUE, TRUE, FALSE)}

InitFrame ==
    /\ IsRawTree(raw, PaletteFrame, MaxNodesFrame)
    /\ tree = None
    /\ out = None
    /\ out2 = None
    /\ inp = None
    /\ pc = "raw"

\* locate_element on the selectors of the k-th node of the tree, up to its
\* first await of a count: the frame the selectors are then applied in
LocateInFrames ==
    /\ pc = "built"
    /\ \E k \in 1..Len(flatten(tree[1])) :
          LET node == flatten(tree[1])[k]
              selectors == node.computed_attributes.selectors
          IN  /\ selectors # None
              /\ inp' = k
              /\ out' = IF selectors[1].in_iframe
                        THEN locale_element_in_iframes(selectors[1])
                        ELSE [status |-> "ok", frame |-> <<>>]
              /\ pc' = "framed"
    /\ UNCHANGED <<raw, tree, out2>>

NextFrame == Build \/ LocateInFrames

SpecFrame == InitFrame /\ [][NextFrame]_vars

\* every element node below and including node lists the css paths of its
\* proper iframe ancestors, outermost first, paths being the list for node
RECURSIVE Threaded(_, _)
Threaded(node, paths) ==
    \/ node.attributes = None
    \/ /\ node.computed_attributes.selectors # None
       /\ node.computed_attributes.selectors[1].iframe_parent_css_selectors = paths
       /\ \A k \in 1..Len(node.children) :
             Threaded(node.children[k],
                      IF node.attributes[1].tag_name = "iframe"
                      THEN Append(paths, node.computed_attributes.selectors[1].css_selector)
                      ELSE paths)

LocatedSelectors == flatten(tree[1])[inp].computed_attributes.selectors[1]

\* C23: for every element node of a built tree, iframe_parent_css_selectors is
\* the sequence of css paths of its proper iframe ancestors, outermost first,
\* and locating the node descends through the frames in exactly that order
\* before applying the selector of the node.
C23_IframeThreading ==
    /\ pc \in {"built", "framed"} => Threaded(tree[1], <<>>)
    /\ pc = "framed" =>
          /\ out.status = "ok"
          /\ out.frame = LocatedSelectors.iframe_parent_css_selectors

\* C29: for every element node of a built tree, in_iframe is true if and only
\* if iframe_parent_css_selectors is not empty, so locating a node flagged
\* in_iframe never fails with the error that the node is not in an iframe.
C29_IframeFlagAgrees ==
    /\ pc \in {"built", "framed"} =>
          \A k \in 1..Len(flatten(tree[1])) :
              LET selectors == flatten(tree[1])[k].computed_attributes.selectors
              IN  selectors # None =>
                     (selectors[1].in_iframe <=>
                        selectors[1].iframe_parent_css_selectors # <<>>)
    /\ pc = "framed" /\ LocatedSelectors.in_iframe => out.status # "ValueError"

\* ---------------------------------------------------------------------------
\* The diagnostics buffer: attribute normalizations and flushes in any order
\* ---------------------------------------------------------------------------

MaxSampleValues == 6

\* the values an unknown attribute takes, some longer than 50 characters
SampleValues ==
    {<<v>> : v \in 1..MaxSampleValues} \cup {<<1, "more">>, <<2, "more">>}

\* raw attribute maps with unknown keys (foo, bar), an excluded key (id), a key
\* of an ignored prefix (data-x) and a field of DomAttributes (href)
BufferMaps ==
    {<< <<(<<"foo">>), v>> >> : v \in SampleValues}
    \cup {<< <<(<<"bar">>), <<"b">> >> >>,
          << <<(<<"foo">>), <<1>> >>, <<(<<"bar">>), <<"c">> >> >>,
          << <<(<<"id">>), <<"i">> >> >>,
          << <<(<<"data", "x">>), <<"d">> >> >>,
          << <<(<<"href">>), <<"h">> >>, <<(<<"bar">>), <<"b">> >> >>}

InitBuffer ==
    /\ raw = <<>>
    /\ tree = None
    /\ out = flush(<<>>)
    /\ out2 = None
    /\ inp = None
    /\ pc = "flushed"

\* DomAttributes.safe_init on one raw attribute map: out is the buffer, out2
\* the DomAttributes returned
Normalize ==
    /\ \E attributes \in BufferMaps :
          /\ out' = add_error(out, ExtraKeys(attributes), attributes)
          /\ out2' = Some(safe_init("div", attributes))
    /\ pc' = "normalized"
    /\ UNCHANGED <<raw, tree, inp>>

\* DomErrorBuffer.flush()
Flush ==
    /\ out' = flush(out)
    /\ out2' = None
    /\ pc' = "flushed"
    /\ UNCHANGED <<raw, tree, inp>>

NextBuffer == Normalize \/ Flush

SpecBuffer == InitBuffer /\ [][NextBuffer]_vars

\* C25: after any sequence of normalizations and flushes every key of the
\* buffer holds at most 5 sample values and no value twice; flush leaves the
\* buffer empty; an unknown attribute key never makes normalization fail.
C25_BufferCappedDeduplicated ==
    /\ \A key \in DOMAIN out :
          /\ Len(out[key]) <= 5
          /\ NoRepeat(out[key])
    /\ pc = "flushed" => DOMAIN out = {}
    /\ pc = "normalized" => out2 # None /\ out2[1].tag_name = "div"

\* C25 witness: a key is full, with one more value seen than it holds, while
\* another key holds a sample
C25_Witness ==
    /\ pc = "normalized"
    /\ <<"foo">> \in DOMAIN out /\ Len(out[<<"foo">>]) = 5
    /\ <<"bar">> \in DOMAIN out /\ Len(out[<<"bar">>]) = 2
    /\ DOMAIN out = {<<"foo">>, <<"bar">>}

\* ---------------------------------------------------------------------------
\* The aria attributes of one element
\* ---------------------------------------------------------------------------

MaxAriaAttrs == 3

AriaKeys ==
    {<<"aria", "label">>, <<"aria", "aria", "label">>,
     <<"aria", "aria", "aria", "label">>, <<"x", "aria", "label">>, <<"title">>}

\* the raw attribute maps of at most MaxAriaAttrs keys, in any order
AriaMaps ==
    {m \in UNION {[1..n -> AriaKeys \X {<<"a">>, <<"b">>}] : n \in 0..MaxAriaAttrs} :
        \A j, k \in 1..Len(m) : m[j][1] = m[k][1] => j = k}

InitAria ==
    /\ raw = <<>>
    /\ tree = None
    /\ out = None
    /\ out2 = None
    /\ inp \in AriaMaps
    /\ pc = "raw"

\* DOMElementNode.__post_init__: the attributes are cleaned up
Cleanup ==
    /\ pc = "raw"
    /\ out' = cleanup_aria_attributes(inp)
    /\ pc' = "cleaned"
    /\ UNCHANGED <<raw, tree, out2, inp>>

NextAria == Cleanup

SpecAria == InitAria /\ [][NextAria]_vars

\* the key starts with two aria- prefixes or more
RepeatedAria(key) == Len(key) > 2 /\ key[1] = "aria" /\ key[2] = "aria"

\* the key with its leading aria- prefixes folded into one
RECURSIVE Canonical(_)
Canonical(key) == IF RepeatedAria(key) THEN Canonical(Tail(key)) ELSE key

KeysOf(map) == {map[k][1] : k \in 1..Len(map)}

\* C26: after cleanup_aria_attributes every raw key made of repeated aria-
\* prefixes has been replaced by the key with one aria- prefix, no key with a
\* repeated aria- prefix remains, and two raw keys mapping to the same key
\* with different values do not make the call fail.
C26_AriaPrefixesFolded ==
    pc = "cleaned" =>
        /\ \A key \in KeysOf(inp) : RepeatedAria(key) => Canonical(key) \in KeysOf(out)
        /\ \A key \in KeysOf(out) : ~RepeatedAria(key)

\* ---------------------------------------------------------------------------
\* The class attribute in the css path of a built node
\* ---------------------------------------------------------------------------

MaxClassLen == 4

\* a letter, a digit, the underscore, the hyphen, a character no class name
\* may hold, and the space
ClassChars == {"c", "1", "_", "-", "!", " "}

ClassValues == UNION {[1..n -> ClassChars] : n \in 0..MaxClassLen}

InitCss ==
    /\ \E class \in ClassValues : \E with_id \in BOOLEAN :
          raw = [i \in 1..1 |-> RawRecord(<<0>>,
                    <<ElementRecord("div",
                         << <<(<<"class">>), class>> >>
                         \o (IF with_id THEN << <<(<<"id">>), <<"x">> >> >> ELSE <<>>),
                         FALSE, TRUE, FALSE)>>,
                    1, 1)]
    /\ tree = None
    /\ out = None
    /\ out2 = None
    /\ inp = None
    /\ pc = "raw"

NextCss == Build

SpecCss == InitCss /\ [][NextCss]_vars

RawClass == AttrGet(raw[1].attributes, <<"class">>)[1]

\* the positions where a whitespace-separated token of the value starts
TokenStarts(v) ==
    {i \in 1..Len(v) : v[i] \notin Whitespace /\ (i = 1 \/ v[i - 1] \in Whitespace)}

\* the token that starts at position i
TokenAt(v, i) ==
    SubSeq(v, i, CHOOSE j \in i..Len(v) :
                    /\ \A k \in i..j : v[k] \notin Whitespace
                    /\ j = Len(v) \/ v[j + 1] \in Whitespace)

\* starts with a letter or underscore, holds only letters, digits, underscore
\* and hyphen
WellFormedClass(tok) ==
    /\ tok[1] \in AsciiLetters \cup {"_"}
    /\ \A k \in 1..Len(tok) : tok[k] \in AsciiLetters \cup AsciiDigits \cup {"_", "-"}

\* the sequence of the elements of a set of numbers, in increasing order
RECURSIVE Ascending(_)
Ascending(S) ==
    IF S = {} THEN <<>>
    ELSE LET m == CHOOSE x \in S : \A y \in S : x <= y
         IN  <<m>> \o Ascending(S \ {m})

BuiltClasses == tree[1].computed_attributes.selectors[1].css_selector.classes

\* C27: build_csspath appends ".token" for exactly those whitespace-separated
\* tokens of the class attribute that start with a letter or underscore and
\* contain only letters, digits, underscore and hyphen, in their original
\* order; an invalid token contributes nothing and does not stop the valid
\* tokens after it.
C27_ClassTokens ==
    pc = "built" =>
        LET starts == Ascending({i \in TokenStarts(RawClass) :
                                    WellFormedClass(TokenAt(RawClass, i))})
        IN  BuiltClasses = [k \in 1..Len(starts) |-> TokenAt(RawClass, starts[k])]

\* C27 witness: an invalid token followed by a valid one that is appended
C27_Witness ==
    /\ pc = "built"
    /\ RawClass = <<"c", "!", " ", "c">>
    /\ BuiltClasses = << <<"c">> >>

====
